---- MODULE Spec2Model ----
(***************************************************************************)
(* A model of github.com/tinywasm/time: the cancelable timer (AfterFunc /  *)
(* Stop) in its two realizations, the process-wide timezone offset         *)
(* register, and the format / parse engine of the two backends.            *)
(*                                                                         *)
(* Texts are TLA+ strings; the byte s[i] of the Go source is               *)
(* SubSeq(s, i+1, i+1).  The source counts instants in nanoseconds since   *)
(* the epoch; the model holds them as days, seconds and nanoseconds.       *)
(***************************************************************************)
EXTENDS Integers, Sequences, FiniteSets, TLC

(***************************************************************************)
(* Bounds of the model.                                                    *)
(***************************************************************************)
MaxTimers == 2
MaxStops == 2
MaxFires == 2
MaxPairEvents == 5
MaxThreads == 2
MaxSetCalls == 3

TimerIds == 1..MaxTimers

\* The two values a callback argument of AfterFunc is drawn from.
Callbacks == {"nil", "fn"}

VARIABLES
    provider,      \* the backend selected by the build: "timeServer" or "timeClient"
    jsEngine,      \* the host's Date parser: "rollover" or "strict" on a day past the month's end
    input,         \* the argument the caller was given, in the runs that apply one operation
    hostZone,      \* the host's time zone, by its name in the zone data
    clock,         \* the reading of the wall clock
    seen,          \* clock run: whether IsPast has returned true, and IsFuture false, so far
    today,         \* stepwise IsToday: the call in progress, its position and its locals
    saved,         \* test runner: the offset saved by initialOffset := GetTimeZoneOffset()
    tzOffsetMinutes, \* the process-wide timezone offset register, in minutes
    lastSet,       \* the most recent SetTimeZoneOffset call, if any: its argument, and
                   \* whether it replaced the different value of an earlier call
    lastCall,      \* the most recent call that returned a result: operation, arguments, result
    threads,       \* concurrent run: per thread, the SetTimeZoneOffset call in progress
    calledHours,   \* concurrent run: the arguments of the Set calls begun so far
    storeOrder,    \* concurrent run: the arguments of the Set calls in the order of their stores
    timers,        \* the Timer objects returned by AfterFunc, by timer number
    hostTimeouts,  \* the host's table of pending setTimeout entries (bridged backend)
    released,      \* per timer, the number of Release() calls on its js.Func wrapper
    calls,         \* per timer, the number of invocations of its callback f
    stopLog,       \* per timer, the values returned by its Stop() calls, in order
    deadCalls,     \* per timer, host invocations of an already released wrapper
    fires,         \* per timer, the number of FireTimer calls made by the test code
    fired,         \* per timer, the number of times the fire path left Active
    phase,         \* per timer, the state of the contract: None, Active, Fired, Stopped
    pendingEv,     \* paired run: the event the second realization has still to take
    pairTrace,     \* paired run: the events given to the two realizations so far
    stack,         \* stepwise run: the frames of the calls in progress, innermost last
    due,           \* stepwise run: the timers whose delay has elapsed, not yet delivered
    spawned,       \* stepwise run: native callbacks started in a goroutine, not yet run
    raced          \* stepwise run: timers whose delay elapsed during one of their Stop() calls

timerVars == <<timers, hostTimeouts, released, calls, stopLog, deadCalls, fires, fired, phase>>

pairVars == <<pendingEv, pairTrace>>

raceVars == <<stack, due, spawned, raced>>

envVars == <<provider, jsEngine, input, hostZone, clock, seen, today, saved>>

tzVars == <<tzOffsetMinutes, lastSet, lastCall>>

setVars == <<threads, calledHours, storeOrder>>

vars == <<envVars, tzVars, setVars, timerVars, pairVars, raceVars>>

Providers == {"timeServer", "timeClient"}

(***************************************************************************)
(* Inputs of the format / parse engine and of the register.                *)
(***************************************************************************)

\* The hours given to SetTimeZoneOffset.
Hours == {-3, 0, 1}

\* The instants given to the Format operations, in seconds: one second
\* before the epoch, 2021-01-01T00:00:00Z and 2021-01-02T01:00:00Z.
Instants == {-1, 1609459200, 1609549200}

\* The date and time texts given to the Parse operations.
DateTexts == {"2024-01-15", "1969-12-31", "2024-02-30", "invalid"}
TimeTexts == {"08:30", "08:30:45", "24:00", "invalid"}

(***************************************************************************)
(* Texts and numbers.                                                      *)
(***************************************************************************)
\* The character of a text at place i (counted from 0); "" past the end.
At(s, i) == IF i >= 0 /\ i < Len(s) THEN SubSeq(s, i + 1, i + 1) ELSE ""

\* The Go slice s[a:b].
Slice(s, a, b) == SubSeq(s, a + 1, b)

\* The Go slice s[a:].
From(s, a) == SubSeq(s, a + 1, Len(s))

\* The decimal digits and the byte of each.
DigitChars == <<"0", "1", "2", "3", "4", "5", "6", "7", "8", "9">>

DigitChar(n) == DigitChars[n + 1]

\* The value of each decimal digit.
DigitValues ==
    "0" :> 0 @@ "1" :> 1 @@ "2" :> 2 @@ "3" :> 3 @@ "4" :> 4 @@
    "5" :> 5 @@ "6" :> 6 @@ "7" :> 7 @@ "8" :> 8 @@ "9" :> 9

DigitBytes == DOMAIN DigitValues

IsDigit(c) == c \in DigitBytes

DigitVal(c) == DigitValues[c]

\* All bytes of s are decimal digits, and there is at least one.
AllDigits(s) ==
    /\ s # ""
    /\ \A i \in 0..(Len(s) - 1) : IsDigit(At(s, i))

\* The value of a text of decimal digits.
RECURSIVE DigitsValTo(_, _)
DigitsValTo(s, n) ==
    IF n = 0 THEN 0 ELSE 10 * DigitsValTo(s, n - 1) + DigitVal(At(s, n - 1))

DigitsVal(s) == DigitsValTo(s, Len(s))

\* The decimal text of a natural number.
RECURSIVE Itoa(_)
Itoa(n) == IF n < 10 THEN DigitChar(n) ELSE Itoa(n \div 10) \o DigitChar(n % 10)

RECURSIVE ZeroPad(_, _)
ZeroPad(s, w) == IF Len(s) >= w THEN s ELSE ZeroPad("0" \o s, w)

\* Mutant of Pad: the field is not filled with zeros.
Pad_Unpadded(n, w) == IF n < 0 THEN "-" \o Itoa(-n) ELSE Itoa(n)

\* The verb %0wd of Sprintf / Fmt.
Pad(n, w) == IF n < 0 THEN "-" \o ZeroPad(Itoa(-n), w - 1) ELSE ZeroPad(Itoa(n), w)

\* Go's integer division and remainder, truncated toward zero (b > 0).
Quot(a, b) == IF a >= 0 THEN a \div b ELSE -((-a) \div b)
Rem(a, b) == a - b * Quot(a, b)

\* The number of occurrences of the byte c in s.
Count(s, c) == Cardinality({i \in 0..(Len(s) - 1) : At(s, i) = c})

\* The place of the first byte of s, from place i on, that is none of bytes.
RECURSIVE Past(_, _, _)
Past(s, i, bytes) == IF At(s, i) \in bytes THEN Past(s, i + 1, bytes) ELSE i

(***************************************************************************)
(* Characters and bytes.  A text holds characters from U+0001 to U+FFFF;   *)
(* the host's Date reads it character by character, and a Go string holds  *)
(* each character as one to three bytes (UTF-8), which len(s) and s[i]     *)
(* count.                                                                  *)
(***************************************************************************)
CharsOf(s) == {SubSeq(s, i, i) : i \in 1..Len(s)}

\* The characters U+0001 to U+001F.
ControlChars == CharsOf("") \cup {"\t", "\n", "\f", "\r"}

\* The characters U+0021 to U+0040 that are no digits.
MarkChars ==
    {"!", "\"", "#", "$", "%", "&", "'", "(", ")", "*", "+", ",", "-", ".", "/", ":", ";",
     "<", "=", ">", "?", "@"}

\* The characters below 'A'.
BelowAChars == ControlChars \cup {" "} \cup MarkChars \cup DigitBytes

\* The characters from U+0001 to U+007F a text can hold: one byte each.
AsciiChars ==
    BelowAChars \cup CharsOf("ABCDEFGHIJKLMNOPQRSTUVWXYZ[\\]^_abcdefghijklmnopqrstuvwxyz{|}~")

\* The characters from U+0080 to U+07FF a text can hold: two bytes each.
TwoByteChars ==
    CharsOf(
    " ¡¢£¤¥¦§¨©ª«¬­®¯°±²³´µ¶·¸¹º»¼½¾¿" \o
    "ÀÁÂÃÄÅÆÇÈÉÊËÌÍÎÏÐÑÒÓÔÕÖ×ØÙÚÛÜÝÞßàáâãäåæçèéêëìíîïðñòóôõö÷øùúûüýþÿ" \o
    "ƀƁƂƃƄƅƆƇƈƉƊƋƌƍƎƏƐƑƒƓƔƕƖƗƘƙƚƛƜƝƞƟƠơƢƣƤƥƦƧƨƩƪƫƬƭƮƯưƱƲƳƴƵƶƷƸƹƺƻƼƽƾƿ" \o
    "ǀǁǂǃǄǅǆǇǈǉǊǋǌǍǎǏǐǑǒǓǔǕǖǗǘǙǚǛǜǝǞǟǠǡǢǣǤǥǦǧǨǩǪǫǬǭǮǯǰǱǲǳǴǵǶǷǸǹǺǻǼǽǾǿ" \o
    "ʀʁʂʃʄʅʆʇʈʉʊʋʌʍʎʏʐʑʒʓʔʕʖʗʘʙʚʛʜʝʞʟʠʡʢʣʤʥʦʧʨʩʪʫʬʭʮʯʰʱʲʳʴʵʶʷʸʹʺʻʼʽʾʿ" \o
    "ˀˁ˂˃˄˅ˆˇˈˉˊˋˌˍˎˏːˑ˒˓˔˕˖˗˘˙˚˛˜˝˞˟ˠˡˢˣˤ˥˦˧˨˩˪˫ˬ˭ˮ˯˰˱˲˳˴˵˶˷˸˹˺˻˼˽˾˿" \o
    "΀΁΂΃΄΅Ά·ΈΉΊ΋Ό΍ΎΏΐΑΒΓΔΕΖΗΘΙΚΛΜΝΞΟΠΡ΢ΣΤΥΦΧΨΩΪΫάέήίΰαβγδεζηθικλμνξο" \o
    "πρςστυφχψωϊϋόύώϏϐϑϒϓϔϕϖϗϘϙϚϛϜϝϞϟϠϡϢϣϤϥϦϧϨϩϪϫϬϭϮϯϰϱϲϳϴϵ϶ϷϸϹϺϻϼϽϾϿ" \o
    "Ҁҁ҂҃҄҅҆҇҈҉ҊҋҌҍҎҏҐґҒғҔҕҖҗҘҙҚқҜҝҞҟҠҡҢңҤҥҦҧҨҩҪҫҬҭҮүҰұҲҳҴҵҶҷҸҹҺһҼҽҾҿ" \o
    "ӀӁӂӃӄӅӆӇӈӉӊӋӌӍӎӏӐӑӒӓӔӕӖӗӘәӚӛӜӝӞӟӠӡӢӣӤӥӦӧӨөӪӫӬӭӮӯӰӱӲӳӴӵӶӷӸӹӺӻӼӽӾӿ" \o
    "րցւփքօֆևֈ։֊֋֌֍֎֏֐ְֱֲֳִֵֶַָֹֺֻּֽ֑֖֛֢֣֤֥֦֧֪֚֭֮֒֓֔֕֗֘֙֜֝֞֟֠֡֨֩֫֬֯־ֿ" \o
    "׀ׁׂ׃ׅׄ׆ׇ׈׉׊׋׌׍׎׏אבגדהוזחטיךכלםמןנסעףפץצקרשת׫׬׭׮ׯװױײ׳״׵׶׷׸׹׺׻׼׽׾׿" \o
    "ڀځڂڃڄڅچڇڈډڊڋڌڍڎڏڐڑڒړڔڕږڗژڙښڛڜڝڞڟڠڡڢڣڤڥڦڧڨکڪګڬڭڮگڰڱڲڳڴڵڶڷڸڹںڻڼڽھڿ" \o
    "ۀہۂۃۄۅۆۇۈۉۊۋیۍێۏېۑےۓ۔ەۖۗۘۙۚۛۜ۝۞ۣ۟۠ۡۢۤۥۦۧۨ۩۪ۭ۫۬ۮۯ۰۱۲۳۴۵۶۷۸۹ۺۻۼ۽۾ۿ" \o
    "ހށނރބޅކއވމފދތލގޏސޑޒޓޔޕޖޗޘޙޚޛޜޝޞޟޠޡޢޣޤޥަާިީުޫެޭޮޯްޱ޲޳޴޵޶޷޸޹޺޻޼޽޾޿" \o
    "߀߁߂߃߄߅߆߇߈߉ߊߋߌߍߎߏߐߑߒߓߔߕߖߗߘߙߚߛߜߝߞߟߠߡߢߣߤߥߦߧߨߩߪ߲߫߬߭߮߯߰߱߳ߴߵ߶߷߸߹ߺ߻߼߽߾߿")

\* The halves of the characters above U+FFFF a text can hold: such a
\* character is two places of a text and four bytes of a Go string, two to
\* each half.
HalfChars ==
    CharsOf(
    "𰂀𰒁𰢂𰲃𱂄𱒅𱢆𱲇𲂈𲒉𲢊𲲋𳂌𳒍𳢎𳲏𴂐𴒑𴢒𴲓𵂔𵒕𵢖𵲗𶂘𶒙𶢚𶲛𷂜𷒝𷢞𷲟" \o
    "𸂠𸒡𸢢𸲣𹂤𹒥𹢦𹲧𺂨𺒩𺢪𺲫𻂬𻒭𻢮𻲯𼂰𼒱𼢲𼲳𽂴𽒵𽢶𽲷𾂸𾒹𾢺𾲻𿂼𿒽𿢾𿲿" \o
    "񀃀񀓁񀣂񀳃񁃄񁓅񁣆񁳇񂃈񂓉񂣊񂳋񃃌񃓍񃣎񃳏񄃐񄓑񄣒񄳓񅃔񅓕񅣖񅳗񆃘񆓙񆣚񆳛񇃜񇓝񇣞񇳟" \o
    "񈃠񈓡񈣢񈳣񉃤񉓥񉣦񉳧񊃨񊓩񊣪񊳫񋃬񋓭񋣮񋳯񌃰񌓱񌣲񌳳񍃴񍓵񍣶񍳷񎃸񎓹񎣺񎳻񏃼񏓽񏣾񏳿" \o
    "񰆀񰖁񰦂񰶃񱆄񱖅񱦆񱶇񲆈񲖉񲦊񲶋񳆌񳖍񳦎񳶏񴆐񴖑񴦒񴶓񵆔񵖕񵦖񵶗񶆘񶖙񶦚񶶛񷆜񷖝񷦞񷶟" \o
    "񸆠񸖡񸦢񸶣񹆤񹖥񹦦񹶧񺆨񺖩񺦪񺶫񻆬񻖭񻦮񻶯񼆰񼖱񼦲񼶳񽆴񽖵񽦶񽶷񾆸񾖹񾦺񾶻񿆼񿖽񿦾񿶿" \o
    "򀇀򀗁򀧂򀷃򁇄򁗅򁧆򁷇򂇈򂗉򂧊򂷋򃇌򃗍򃧎򃷏򄇐򄗑򄧒򄷓򅇔򅗕򅧖򅷗򆇘򆗙򆧚򆷛򇇜򇗝򇧞򇷟" \o
    "򈇠򈗡򈧢򈷣򉇤򉗥򉧦򉷧򊇨򊗩򊧪򊷫򋇬򋗭򋧮򋷯򌇰򌗱򌧲򌷳򍇴򍗵򍧶򍷷򎇸򎗹򎧺򎷻򏇼򏗽򏧾򏷿" \o
    "򰊀򰚁򰪂򰺃򱊄򱚅򱪆򱺇򲊈򲚉򲪊򲺋򳊌򳚍򳪎򳺏򴊐򴚑򴪒򴺓򵊔򵚕򵪖򵺗򶊘򶚙򶪚򶺛򷊜򷚝򷪞򷺟" \o
    "򸊠򸚡򸪢򸺣򹊤򹚥򹪦򹺧򺊨򺚩򺪪򺺫򻊬򻚭򻪮򻺯򼊰򼚱򼪲򼺳򽊴򽚵򽪶򽺷򾊸򾚹򾪺򾺻򿊼򿚽򿪾򿺿" \o
    "󀋀󀛁󀫂󀻃󁋄󁛅󁫆󁻇󂋈󂛉󂫊󂻋󃋌󃛍󃫎󃻏󄋐󄛑󄫒󄻓󅋔󅛕󅫖󅻗󆋘󆛙󆫚󆻛󇋜󇛝󇫞󇻟" \o
    "󈋠󈛡󈫢󈻣󉋤󉛥󉫦󉻧󊋨󊛩󊫪󊻫󋋬󋛭󋫮󋻯󌋰󌛱󌫲󌻳󍋴󍛵󍫶󍻷󎋸󎛹󎫺󎻻󏋼󏛽󏫾󏻿" \o
    "󰎀󰞁󰮂󰾃󱎄󱞅󱮆󱾇󲎈󲞉󲮊󲾋󳎌󳞍󳮎󳾏󴎐󴞑󴮒󴾓󵎔󵞕󵮖󵾗󶎘󶞙󶮚󶾛󷎜󷞝󷮞󷾟" \o
    "󸎠󸞡󸮢󸾣󹎤󹞥󹮦󹾧󺎨󺞩󺮪󺾫󻎬󻞭󻮮󻾯󼎰󼞱󼮲󼾳󽎴󽞵󽮶󽾷󾎸󾞹󾮺󾾻󿎼󿞽󿮾󿾿" \o
    "􀏀􀟁􀯂􀿃􁏄􁟅􁯆􁿇􂏈􂟉􂯊􂿋􃏌􃟍􃯎􃿏􄏐􄟑􄯒􄿓􅏔􅟕􅯖􅿗􆏘􆟙􆯚􆿛􇏜􇟝􇯞􇿟" \o
    "􈏠􈟡􈯢􈿣􉏤􉟥􉯦􉿧􊏨􊟩􊯪􊿫􋏬􋟭􋯮􋿯􌏰􌟱􌯲􌿳􍏴􍟵􍯶􍿷􎏸􎟹􎯺􎿻􏏼􏟽􏯾􏿿")

\* The bytes of a character in a Go string: one, two or three, and four for
\* the two halves of a character above U+FFFF.
Utf8Len(c) ==
    IF c \in AsciiChars THEN 1
    ELSE IF c \in TwoByteChars \/ c \in HalfChars THEN 2 ELSE 3

\* Every character of s takes one byte.
OneByteEach(s) == \A i \in 1..Len(s) : SubSeq(s, i, i) \in AsciiChars

\* len(s) of a Go string.
RECURSIVE ByteLenTo(_, _)
ByteLenTo(s, n) == IF n = 0 THEN 0 ELSE ByteLenTo(s, n - 1) + Utf8Len(At(s, n - 1))

ByteLen(s) == IF OneByteEach(s) THEN Len(s) ELSE ByteLenTo(s, Len(s))

\* The byte s[i] of a Go string, when it is a character of one byte; "" for
\* a byte of a longer character and past the end.
RECURSIVE ByteAtFrom(_, _, _)
ByteAtFrom(s, k, i) ==
    IF k >= Len(s) THEN ""
    ELSE IF i = 0 THEN (IF Utf8Len(At(s, k)) = 1 THEN At(s, k) ELSE "")
    ELSE IF i < Utf8Len(At(s, k)) THEN ""
    ELSE ByteAtFrom(s, k + 1, i - Utf8Len(At(s, k)))

ByteAt(s, i) == IF OneByteEach(s) THEN At(s, i) ELSE ByteAtFrom(s, 0, i)

(***************************************************************************)
(* The host calendar: days since the epoch <-> civil date (proleptic       *)
(* Gregorian, UTC), as time.Time and the host Date compute it.             *)
(***************************************************************************)
IsLeap(y) == (y % 4 = 0 /\ y % 100 # 0) \/ y % 400 = 0

DaysIn(m, y) ==
    IF m = 2 THEN (IF IsLeap(y) THEN 29 ELSE 28)
    ELSE IF m \in {4, 6, 9, 11} THEN 30 ELSE 31

DaysFromCivil(y, m, d) ==
    LET yy  == IF m <= 2 THEN y - 1 ELSE y
        era == yy \div 400
        yoe == yy - era * 400
        mp  == (m + 9) % 12
        doy == (153 * mp + 2) \div 5 + d - 1
        doe == yoe * 365 + yoe \div 4 - yoe \div 100 + doy
    IN era * 146097 + doe - 719468

CivilFromDays(z) ==
    LET zz  == z + 719468
        era == zz \div 146097
        doe == zz - era * 146097
        yoe == (doe - doe \div 1460 + doe \div 36524 - doe \div 146096) \div 365
        doy == doe - (365 * yoe + yoe \div 4 - yoe \div 100)
        mp  == (5 * doy + 2) \div 153
        d   == doy - (153 * mp + 2) \div 5 + 1
        m   == IF mp < 10 THEN mp + 3 ELSE mp - 9
        y   == yoe + era * 400 + (IF m <= 2 THEN 1 ELSE 0)
    IN [year |-> y, month |-> m, day |-> d]

\* Mutant of RenderDate: the layout has the day before the month.
RenderDate_DayFirst(day) ==
    LET c == CivilFromDays(day)
    IN Pad(c.year, 4) \o "-" \o Pad(c.day, 2) \o "-" \o Pad(c.month, 2)

\* The calendar date of a day counted from 1970-01-01, as YYYY-MM-DD.
RenderDate(day) ==
    LET c == CivilFromDays(day)
    IN Pad(c.year, 4) \o "-" \o Pad(c.month, 2) \o "-" \o Pad(c.day, 2)

UTCHours(t) == (t % 86400) \div 3600
UTCMinutes(t) == (t % 3600) \div 60
UTCSeconds(t) == t % 60

\* The time of day of a count of seconds read as UTC, as HH:MM:SS.
RenderClock(t) ==
    Pad(UTCHours(t), 2) \o ":" \o Pad(UTCMinutes(t), 2) \o ":" \o Pad(UTCSeconds(t), 2)

(***************************************************************************)
(* Instants.  An instant is a count of nanoseconds since 1970-01-01 UTC,   *)
(* held as whole days (day), seconds of the day (sec, 0..86399) and        *)
(* nanoseconds of the second (ns, 0..999999999), so that the 64 bits of an *)
(* int64 and the wider range of time.Time and of a JavaScript Date are all *)
(* within reach.                                                           *)
(***************************************************************************)
Instant(day, sec, ns) == [day |-> day, sec |-> sec, ns |-> ns]

\* The instant of day days, sec seconds and ns nanoseconds, carries settled.
Norm(day, sec, ns) ==
    LET s == sec + ns \div 1000000000
    IN Instant(day + s \div 86400, s % 86400, ns % 1000000000)

\* The instant t whole seconds after 1970-01-01.
AtSeconds(t) == Norm(0, t, 0)

\* The whole seconds of an instant, below it.
Seconds(at) == at.day * 86400 + at.sec

Before(a, b) ==
    \/ a.day < b.day
    \/ a.day = b.day /\ a.sec < b.sec
    \/ a.day = b.day /\ a.sec = b.sec /\ a.ns < b.ns

\* 2^63 and -2^63 nanoseconds.
TwoTo63 == Instant(106751, 85636, 854775808)
MinInt64 == Instant(-106752, 763, 145224192)

\* Twice an instant, and an instant with its sign turned or dropped.
Twice(at) == Norm(2 * at.day, 2 * at.sec, 2 * at.ns)
Negated(at) == Norm(-at.day, -at.sec, -at.ns)
Magnitude(at) == IF at.day < 0 THEN Negated(at) ELSE at

\* An instant doubled n times.
RECURSIVE Doubled(_, _)
Doubled(at, n) == IF n = 0 THEN at ELSE Doubled(Twice(at), n - 1)

\* The instant within -2^63 .. 2^63 - 1 that differs from at by a multiple of
\* 2^64, for an instant at within 2^(63 + n) of zero: the multiples are taken
\* off by halves, 2^(63 + n) first.
RECURSIVE Wrap(_, _)
Wrap(at, n) ==
    LET half == Doubled(TwoTo63, n)
        full == Twice(half)
        near == IF Before(at, Negated(half))
                THEN Norm(at.day + full.day, at.sec + full.sec, at.ns + full.ns)
                ELSE IF ~Before(at, half)
                THEN Norm(at.day - full.day, at.sec - full.sec, at.ns - full.ns)
                ELSE at
    IN IF n = 0 THEN near ELSE Wrap(near, n - 1)

\* The int64 a count of nanoseconds becomes: the count modulo 2^64, within
\* -2^63 .. 2^63 - 1.  Ten halvings cover every product of an int64 of
\* milliseconds of a Date and 10^6.
Int64(at) ==
    IF ~Before(at, MinInt64) /\ Before(at, TwoTo63) THEN at ELSE Wrap(at, 10)

\* The instant of a civil date and time of day, UTC.
CivilInstant(y, m, d, hh, mm, ss) == Norm(DaysFromCivil(y, m, d), hh * 3600 + mm * 60 + ss, 0)

(***************************************************************************)
(* The timezone offset register.                                           *)
(***************************************************************************)

\* Mutant of StoredOffset: the hours are stored unscaled.
StoredOffset_Unscaled(hours) == hours

\* hours * 60 within 32 bits, by halves of 16 bits: the low half with its
\* carry, and the high half.
MinutesLow(hours) == (hours % 65536) * 60
MinutesHigh(hours) == ((hours \div 65536) * 60 + MinutesLow(hours) \div 65536) % 65536

\* SetTimeZoneOffset: the value stored for an argument, int32(hours * 60),
\* the low 32 bits of the product read with a sign.
StoredOffset(hours) ==
    (IF MinutesHigh(hours) >= 32768 THEN MinutesHigh(hours) - 65536 ELSE MinutesHigh(hours))
        * 65536 + (MinutesLow(hours) % 65536)

\* Mutant of AtomicStore: the low byte is written, the rest is left.
AtomicStore_Torn(old, new) == (old \div 256) * 256 + (new % 256)

\* atomic.Int32.Store: the register after storing new over old.
AtomicStore(old, new) == new

\* getOffsetMinutes: tzOffsetMinutes.Load().
getOffsetMinutes == tzOffsetMinutes

\* Mutant of OffsetHours: the minutes are returned undivided.
OffsetHours_Minutes(minutes) == minutes

\* GetTimeZoneOffset: int(tzOffsetMinutes.Load() / 60).
OffsetHours(minutes) == Quot(minutes, 60)

(***************************************************************************)
(* Values of type any given to the Format operations.                      *)
(***************************************************************************)
\* An int64 of n whole seconds (n * 10^9 nanoseconds), and one of any instant.
I64(n) == [type |-> "int64", n |-> n, s |-> "", at |-> AtSeconds(n)]
I64At(at) == [type |-> "int64", n |-> 0, s |-> "", at |-> at]
\* A value of a type no Format operation has a case for.
Unsupported(type) == [type |-> type, n |-> 0, s |-> "", at |-> AtSeconds(0)]
I16(n) == [type |-> "int16", n |-> n, s |-> "", at |-> AtSeconds(0)]
Str(s) == [type |-> "string", n |-> 0, s |-> s, at |-> AtSeconds(0)]
PlainInt(n) == [type |-> "int", n |-> n, s |-> "", at |-> AtSeconds(0)]

NoTimer == [kind |-> "none"]

(***************************************************************************)
(* time.Parse / time.ParseInLocation(..., time.UTC) of the native backend, *)
(* for the three layouts the package uses.                                 *)
(***************************************************************************)
LayoutDate == "2006-01-02"
LayoutShort == "2006-01-02 15:04"
LayoutFull == "2006-01-02 15:04:05"

Parsed(ok, n, rest) == [ok |-> ok, n |-> n, rest |-> rest]

\* A one- or two-digit number; two digits are required when fixed.
GetNum(s, fixed) ==
    IF ~IsDigit(At(s, 0)) THEN Parsed(FALSE, 0, s)
    ELSE IF ~IsDigit(At(s, 1))
         THEN (IF fixed THEN Parsed(FALSE, 0, s)
               ELSE Parsed(TRUE, DigitVal(At(s, 0)), From(s, 1)))
         ELSE Parsed(TRUE, 10 * DigitVal(At(s, 0)) + DigitVal(At(s, 1)), From(s, 2))

\* The four-digit year.
GetYear(s) ==
    IF Len(s) < 4 \/ ~AllDigits(Slice(s, 0, 4)) THEN Parsed(FALSE, 0, s)
    ELSE Parsed(TRUE, DigitsVal(Slice(s, 0, 4)), From(s, 4))

CutSpace(s) == From(s, Past(s, 0, {" "}))

\* A literal byte of the layout; a space of the layout takes a run of spaces.
Skip(s, lit) ==
    IF lit = " "
    THEN (IF s # "" /\ At(s, 0) # " " THEN Parsed(FALSE, 0, s)
          ELSE Parsed(TRUE, 0, CutSpace(s)))
    ELSE (IF At(s, 0) = lit THEN Parsed(TRUE, 0, From(s, 1)) ELSE Parsed(FALSE, 0, s))

CutDigits(s) == From(s, Past(s, 0, DigitBytes))

\* 10 to the power n.
RECURSIVE TenTo(_)
TenTo(n) == IF n = 0 THEN 1 ELSE 10 * TenTo(n - 1)

\* A fraction of a second follows the seconds: a period or a comma and a digit.
HasFraction(s) == Len(s) >= 2 /\ At(s, 0) \in {".", ","} /\ IsDigit(At(s, 1))

\* A fraction of a second after the seconds, taken although the layout has none.
CutFraction(s) == IF HasFraction(s) THEN CutDigits(From(s, 1)) ELSE s

\* parseNanoseconds: the nanoseconds of the fraction s begins with, from its
\* first nine digits.
parseNanoseconds(s) ==
    LET digits == Slice(s, 1, Len(s) - Len(CutFraction(s)))
        kept   == IF Len(digits) > 9 THEN Slice(digits, 0, 9) ELSE digits
    IN IF HasFraction(s) THEN DigitsVal(kept) * TenTo(9 - Len(kept)) ELSE 0

\* What time.Parse has read of a value: the error so far ("" for none), the
\* text left and the fields.
GoRead(value) ==
    [err |-> "", rest |-> value, y |-> 0, mo |-> 1, d |-> 1,
     hh |-> 0, mm |-> 0, ss |-> 0, nsec |-> 0]

\* The number got is taken as the field named, when it lies in least..most.
GoTaken(p, got, field, least, most, err) ==
    IF ~got.ok THEN [p EXCEPT !.err = "cannot parse"]
    ELSE IF got.n < least \/ got.n > most THEN [p EXCEPT !.err = err]
    ELSE [p EXCEPT ![field] = got.n, !.rest = got.rest]

GoNumAfter(p, skipped, fixed, field, least, most, err) ==
    IF ~skipped.ok THEN [p EXCEPT !.err = "cannot parse"]
    ELSE GoTaken(p, GetNum(skipped.rest, fixed), field, least, most, err)

\* The literal lit of the layout, then a number.
GoNum(p, lit, fixed, field, least, most, err) ==
    IF p.err # "" THEN p
    ELSE GoNumAfter(p, Skip(p.rest, lit), fixed, field, least, most, err)

\* 2006-01-02: the day is checked against its month at the end.
GoDate(value) ==
    GoNum(GoNum(GoTaken(GoRead(value), GetYear(value), "y", 0, 9999, ""),
                "-", TRUE, "mo", 1, 12, "month out of range"),
          "-", TRUE, "d", 0, 99, "")

\* A fraction after the seconds is read although the layout has none.
GoFraction(p) ==
    IF p.err # "" THEN p
    ELSE [p EXCEPT !.nsec = parseNanoseconds(p.rest), !.rest = CutFraction(p.rest)]

\* 15:04 and 15:04:05 after a space, as the layout has them.
GoClock(layout, p) ==
    IF layout = LayoutDate THEN p
    ELSE IF layout = LayoutShort
    THEN GoNum(GoNum(p, " ", FALSE, "hh", 0, 23, "hour out of range"),
               ":", TRUE, "mm", 0, 59, "minute out of range")
    ELSE GoFraction(GoNum(GoNum(GoNum(p, " ", FALSE, "hh", 0, 23, "hour out of range"),
                                ":", TRUE, "mm", 0, 59, "minute out of range"),
                          ":", TRUE, "ss", 0, 59, "second out of range"))

GoError(p) ==
    IF p.err # "" THEN p.err
    ELSE IF p.rest # "" THEN "extra text"
    ELSE IF p.d < 1 \/ p.d > DaysIn(p.mo, p.y) THEN "day out of range"
    ELSE ""

GoTime(p, err, whole) ==
    [ok |-> err = "", err |-> err,
     at |-> IF err = "" THEN Instant(whole.day, whole.sec, p.nsec) ELSE AtSeconds(0)]

GoParsed(p) == GoTime(p, GoError(p), CivilInstant(p.y, p.mo, p.d, p.hh, p.mm, p.ss))

\* The result of parsing value by layout: the error ("" for nil, else the
\* kind of the ParseError, in the order time.Parse finds them) and the
\* time.Time when there is none.
GoParse(layout, value) == GoParsed(GoClock(layout, GoDate(value)))

(***************************************************************************)
(* The host's time zone.  time.Now().Zone() of the native build and the    *)
(* Date of the bridged build's host read the zone from the host's zone     *)
(* data: the seconds east of UTC in force from each change of the zone on. *)
(* The hosts of the model are in America/St_Johns (three and a half hours  *)
(* west of UTC, two and a half with daylight saving time, and local mean   *)
(* time before 1884) and in Etc/GMT-1 (one hour east, with no changes);    *)
(* UTC is the zone a host is compared with.                                *)
(***************************************************************************)
HostZones == {"America/St_Johns", "Etc/GMT-1"}

\* The changes of America/St_Johns from 1884 through 2011: the day and the
\* second of the day (UTC) of each, and the seconds east of UTC from it on.
StJohnsChanges ==
 <<
    <<-31411, 12652, -12652>>, <<-19261, 19852, -9052>>, <<-19099, 16252, -12652>>,
    <<-18890, 19852, -9052>>, <<-18694, 16252, -12652>>, <<-18503, 9052, -9052>>,
    <<-18404, 5452, -12652>>, <<-18140, 9052, -9052>>, <<-17958, 5452, -12652>>,
    <<-17776, 9052, -9052>>, <<-17594, 5452, -12652>>, <<-17405, 9052, -9052>>,
    <<-17230, 5452, -12652>>, <<-17041, 9052, -9052>>, <<-16866, 5452, -12652>>,
    <<-16677, 9052, -9052>>, <<-16502, 5452, -12652>>, <<-16313, 9052, -9052>>,
    <<-16138, 5452, -12652>>, <<-15949, 9052, -9052>>, <<-15767, 5452, -12652>>,
    <<-15585, 9052, -9052>>, <<-15403, 5452, -12652>>, <<-15214, 9052, -9052>>,
    <<-15039, 5452, -12652>>, <<-14850, 9052, -9052>>, <<-14675, 5452, -12652>>,
    <<-14486, 9052, -9052>>, <<-14311, 5452, -12652>>, <<-14122, 9052, -9052>>,
    <<-13947, 5452, -12652>>, <<-13758, 9052, -9052>>, <<-13576, 5452, -12652>>,
    <<-13387, 9052, -9052>>, <<-13212, 5452, -12652>>, <<-13023, 9052, -9052>>,
    <<-12848, 5452, -12652>>, <<-12696, 12652, -12600>>, <<-12659, 9000, -9000>>,
    <<-12484, 5400, -12600>>, <<-12288, 12600, -9000>>, <<-12141, 9000, -12600>>,
    <<-11924, 12600, -9000>>, <<-11777, 9000, -12600>>, <<-11560, 12600, -9000>>,
    <<-11413, 9000, -12600>>, <<-11189, 12600, -9000>>, <<-11049, 9000, -12600>>,
    <<-10825, 12600, -9000>>, <<-10678, 9000, -12600>>, <<-10461, 12600, -9000>>,
    <<-10314, 9000, -12600>>, <<-10097, 12600, -9000>>, <<-8906, 82800, -9000>>,
    <<-8859, 16200, -12600>>, <<-8635, 19800, -9000>>, <<-8488, 16200, -12600>>,
    <<-8271, 19800, -9000>>, <<-8124, 16200, -12600>>, <<-7907, 19800, -9000>>,
    <<-7760, 16200, -12600>>, <<-7543, 19800, -9000>>, <<-7396, 16200, -12600>>,
    <<-7172, 19800, -9000>>, <<-7025, 16200, -12600>>, <<-6822, 19800, -9000>>,
    <<-6668, 16200, -12600>>, <<-6458, 19800, -9000>>, <<-6304, 16200, -12600>>,
    <<-6094, 19800, -9000>>, <<-5940, 16200, -12600>>, <<-5730, 19800, -9000>>,
    <<-5576, 16200, -12600>>, <<-5366, 19800, -9000>>, <<-5212, 16200, -12600>>,
    <<-4995, 19800, -9000>>, <<-4841, 16200, -12600>>, <<-4631, 19800, -9000>>,
    <<-4477, 16200, -12600>>, <<-4267, 19800, -9000>>, <<-4113, 16200, -12600>>,
    <<-3903, 19800, -9000>>, <<-3749, 16200, -12600>>, <<-3539, 19800, -9000>>,
    <<-3350, 16200, -12600>>, <<-3168, 19800, -9000>>, <<-2986, 16200, -12600>>,
    <<-2804, 19800, -9000>>, <<-2622, 16200, -12600>>, <<-2440, 19800, -9000>>,
    <<-2258, 16200, -12600>>, <<-2076, 19800, -9000>>, <<-1894, 16200, -12600>>,
    <<-1712, 19800, -9000>>, <<-1523, 16200, -12600>>, <<-1348, 19800, -9000>>,
    <<-1159, 16200, -12600>>, <<-977, 19800, -9000>>, <<-795, 16200, -12600>>,
    <<-613, 19800, -9000>>, <<-431, 16200, -12600>>, <<-249, 19800, -9000>>,
    <<-67, 16200, -12600>>, <<115, 19800, -9000>>, <<297, 16200, -12600>>,
    <<479, 19800, -9000>>, <<668, 16200, -12600>>, <<850, 19800, -9000>>,
    <<1032, 16200, -12600>>, <<1214, 19800, -9000>>, <<1396, 16200, -12600>>,
    <<1578, 19800, -9000>>, <<1760, 16200, -12600>>, <<1942, 19800, -9000>>,
    <<2124, 16200, -12600>>, <<2306, 19800, -9000>>, <<2495, 16200, -12600>>,
    <<2670, 19800, -9000>>, <<2859, 16200, -12600>>, <<3041, 19800, -9000>>,
    <<3223, 16200, -12600>>, <<3405, 19800, -9000>>, <<3587, 16200, -12600>>,
    <<3769, 19800, -9000>>, <<3951, 16200, -12600>>, <<4133, 19800, -9000>>,
    <<4315, 16200, -12600>>, <<4497, 19800, -9000>>, <<4686, 16200, -12600>>,
    <<4861, 19800, -9000>>, <<5050, 16200, -12600>>, <<5232, 19800, -9000>>,
    <<5414, 16200, -12600>>, <<5596, 19800, -9000>>, <<5778, 16200, -12600>>,
    <<5960, 19800, -9000>>, <<6142, 16200, -12600>>, <<6303, 12660, -9000>>,
    <<6506, 9060, -12600>>, <<6667, 12660, -5400>>, <<6877, 5460, -12600>>,
    <<7031, 12660, -9000>>, <<7241, 9060, -12600>>, <<7395, 12660, -9000>>,
    <<7605, 9060, -12600>>, <<7766, 12660, -9000>>, <<7969, 9060, -12600>>,
    <<8130, 12660, -9000>>, <<8333, 9060, -12600>>, <<8494, 12660, -9000>>,
    <<8704, 9060, -12600>>, <<8858, 12660, -9000>>, <<9068, 9060, -12600>>,
    <<9222, 12660, -9000>>, <<9432, 9060, -12600>>, <<9593, 12660, -9000>>,
    <<9796, 9060, -12600>>, <<9957, 12660, -9000>>, <<10160, 9060, -12600>>,
    <<10321, 12660, -9000>>, <<10524, 9060, -12600>>, <<10685, 12660, -9000>>,
    <<10895, 9060, -12600>>, <<11049, 12660, -9000>>, <<11259, 9060, -12600>>,
    <<11413, 12660, -9000>>, <<11623, 9060, -12600>>, <<11784, 12660, -9000>>,
    <<11987, 9060, -12600>>, <<12148, 12660, -9000>>, <<12351, 9060, -12600>>,
    <<12512, 12660, -9000>>, <<12722, 9060, -12600>>, <<12876, 12660, -9000>>,
    <<13086, 9060, -12600>>, <<13240, 12660, -9000>>, <<13450, 9060, -12600>>,
    <<13583, 12660, -9000>>, <<13821, 9060, -12600>>, <<13947, 12660, -9000>>,
    <<14185, 9060, -12600>>, <<14311, 12660, -9000>>, <<14549, 9060, -12600>>,
    <<14682, 12660, -9000>>, <<14920, 9060, -12600>>, <<15046, 12660, -9000>>,
    <<15284, 16200, -12600>>
 >>

\* The first Sunday from a day on (1970-01-01 was a Thursday).
SundayFrom(day) == day + ((7 - ((day + 4) % 7)) % 7)

\* The changes of America/St_Johns in a year from 2012 on: at 02:00 of the
\* second Sunday of March to daylight saving time, and at 02:00 of the
\* first Sunday of November back.
StJohnsRule(year) ==
    <<<<SundayFrom(DaysFromCivil(year, 3, 8)), 19800, -9000>>,
      <<SundayFrom(DaysFromCivil(year, 11, 1)), 16200, -12600>>>>

\* The changes of a zone that bear on a year, and the seconds east of UTC
\* before the first of them.
ZoneChanges(zone, year) ==
    IF zone # "America/St_Johns" THEN <<>>
    ELSE IF year >= 2012 THEN StJohnsRule(year) ELSE StJohnsChanges

ZoneFirstOffset(zone, year) ==
    IF zone = "America/St_Johns" THEN (IF year >= 2012 THEN -12600 ELSE -12652)
    ELSE IF zone = "Etc/GMT-1" THEN 3600 ELSE 0

ZoneOffsetBefore(changes, first, i) == IF i = 1 THEN first ELSE changes[i - 1][3]

\* The instant from which change i counts: for a UTC instant the change
\* itself; for a wall-clock reading the change moved by the larger of the
\* offsets before and after it, so that a reading the change skips or
\* repeats is taken with the offset before the change.
ZoneChangeAt(changes, first, i, local) ==
    LET before == ZoneOffsetBefore(changes, first, i)
        after  == changes[i][3]
    IN Norm(changes[i][1],
            changes[i][2] + (IF ~local THEN 0 ELSE IF before > after THEN before ELSE after), 0)

ZoneChangesPast(changes, first, at, local) ==
    Cardinality({i \in 1..Len(changes) : ~Before(at, ZoneChangeAt(changes, first, i, local))})

ZoneOffsetAfter(changes, first, n) == IF n = 0 THEN first ELSE changes[n][3]

ZoneOffsetIn(changes, first, at, local) ==
    ZoneOffsetAfter(changes, first, ZoneChangesPast(changes, first, at, local))

ZoneOffsetInYear(zone, year, at, local) ==
    ZoneOffsetIn(ZoneChanges(zone, year), ZoneFirstOffset(zone, year), at, local)

\* The seconds east of UTC of a zone at an instant.
ZoneOffsetAt(zone, at) == ZoneOffsetInYear(zone, CivilFromDays(at.day).year, at, FALSE)

\* The seconds east of UTC of a zone at a reading of its wall clock.
ZoneOffsetOfLocal(zone, at) == ZoneOffsetInYear(zone, CivilFromDays(at.day).year, at, TRUE)

(***************************************************************************)
(* new Date(text) of the bridged backend's host.  The host first reads the *)
(* text as a date-time text of ECMAScript: a year of four digits, or of    *)
(* six with a sign; then -MM and -DD, each optional; T; HH:mm, then :ss    *)
(* and a fraction of any length, each optional; then Z or an offset        *)
(* +hh:mm.  A text that leaves this form after the T gives an Invalid      *)
(* Date.  A text that leaves it before the T is handed, from the place     *)
(* where it leaves, to the older reader of a "rollover" engine (V8's       *)
(* DateParser), which takes numbers, month names, zone names and           *)
(* parentheses in many orders; on a "strict" engine it is an Invalid Date. *)
(* A day past the end of its month (up to 31) rolls over into the next     *)
(* month on a "rollover" engine and is an Invalid Date on a "strict" one.  *)
(* A text without Z or offset is read in the host's zone.                  *)
(***************************************************************************)

\* The run of digits s begins with.
DigitRun(s) == Slice(s, 0, Past(s, 0, DigitBytes))

CutZeros(s) == From(s, Past(s, 0, {"0"}))

\* The number a run of digits is read as: leading zeros are passed over,
\* then at most nine digits count.
ReadUnsignedNumeral(run) ==
    LET sig == CutZeros(run)
    IN DigitsVal(IF Len(sig) > 9 THEN Slice(sig, 0, 9) ELSE sig)

\* The milliseconds of a fraction of a second: its first three digits.
ReadMilliseconds(run) ==
    LET number == ReadUnsignedNumeral(run)
        length == Len(run)
    IN IF length < 3 THEN number * TenTo(3 - length)
       ELSE number \div TenTo((IF length > 9 THEN 9 ELSE length) - 3)

\* The largest count of days a Date holds: 8.64 * 10^15 ms.
MaxDateDays == 100000000

\* The white space and the line ends: tab, line feed, vertical tab, form
\* feed, carriage return, space, and of the characters above 'A' the
\* no-break space (U+00A0), the ogham space mark (U+1680) and the byte
\* order mark (U+FEFF).
WhiteSpaceChars == {" ", "\t", "\n", "\f", "\r", "", " ", " ", "﻿"}

IsWhiteSpaceChar(c) == c \in WhiteSpaceChars

\* The character is 'A' or above.
IsAsciiAlphaOrAbove(c) == c # "" /\ c \notin BelowAChars

\* A character of a word: 'A' or above, and no white space.
IsWordChar(c) == IsAsciiAlphaOrAbove(c) /\ ~IsWhiteSpaceChar(c)

LowerCase ==
    "A" :> "a" @@ "B" :> "b" @@ "C" :> "c" @@ "D" :> "d" @@ "E" :> "e" @@ "F" :> "f" @@
    "G" :> "g" @@ "H" :> "h" @@ "I" :> "i" @@ "J" :> "j" @@ "K" :> "k" @@ "L" :> "l" @@
    "M" :> "m" @@ "N" :> "n" @@ "O" :> "o" @@ "P" :> "p" @@ "Q" :> "q" @@ "R" :> "r" @@
    "S" :> "s" @@ "T" :> "t" @@ "U" :> "u" @@ "V" :> "v" @@ "W" :> "w" @@ "X" :> "x" @@
    "Y" :> "y" @@ "Z" :> "z"

AsciiAlphaToLower(c) == IF c \in DOMAIN LowerCase THEN LowerCase[c] ELSE c

\* The words the older reader knows, by their first three bytes in lower
\* case: the months, AM and PM, the zones (in hours east) and the T.
Keyword(type, value) == [type |-> type, value |-> value]

KeywordTable ==
    "jan" :> Keyword("MONTH_NAME", 1) @@ "feb" :> Keyword("MONTH_NAME", 2) @@
    "mar" :> Keyword("MONTH_NAME", 3) @@ "apr" :> Keyword("MONTH_NAME", 4) @@
    "may" :> Keyword("MONTH_NAME", 5) @@ "jun" :> Keyword("MONTH_NAME", 6) @@
    "jul" :> Keyword("MONTH_NAME", 7) @@ "aug" :> Keyword("MONTH_NAME", 8) @@
    "sep" :> Keyword("MONTH_NAME", 9) @@ "oct" :> Keyword("MONTH_NAME", 10) @@
    "nov" :> Keyword("MONTH_NAME", 11) @@ "dec" :> Keyword("MONTH_NAME", 12) @@
    "am" :> Keyword("AM_PM", 0) @@ "pm" :> Keyword("AM_PM", 12) @@
    "ut" :> Keyword("TIME_ZONE_NAME", 0) @@ "utc" :> Keyword("TIME_ZONE_NAME", 0) @@
    "z" :> Keyword("TIME_ZONE_NAME", 0) @@ "gmt" :> Keyword("TIME_ZONE_NAME", 0) @@
    "cdt" :> Keyword("TIME_ZONE_NAME", -5) @@ "cst" :> Keyword("TIME_ZONE_NAME", -6) @@
    "edt" :> Keyword("TIME_ZONE_NAME", -4) @@ "est" :> Keyword("TIME_ZONE_NAME", -5) @@
    "mdt" :> Keyword("TIME_ZONE_NAME", -6) @@ "mst" :> Keyword("TIME_ZONE_NAME", -7) @@
    "pdt" :> Keyword("TIME_ZONE_NAME", -7) @@ "pst" :> Keyword("TIME_ZONE_NAME", -8) @@
    "t" :> Keyword("TIME_SEPARATOR", 0)

\* KeywordTable::Lookup: a word longer than its keyword is a month name only.
Lookup(prefix, len) ==
    IF prefix \in DOMAIN KeywordTable
          /\ (len <= 3 \/ KeywordTable[prefix].type = "MONTH_NAME")
    THEN KeywordTable[prefix] ELSE Keyword("INVALID", 0)

\* The place after the word that begins at place i.
RECURSIVE WordEnd(_, _)
WordEnd(text, i) == IF IsWordChar(At(text, i)) THEN WordEnd(text, i + 1) ELSE i

\* The first three bytes of the word text[i:end], in lower case.
ReadWord(text, i, end) ==
    AsciiAlphaToLower(At(text, i))
       \o (IF i + 1 < end THEN AsciiAlphaToLower(At(text, i + 1)) ELSE "")
       \o (IF i + 2 < end THEN AsciiAlphaToLower(At(text, i + 2)) ELSE "")

\* SkipParentheses: the place after the parenthesis that opens at place i,
\* nested ones counted; one that is not closed runs to the end of the text.
RECURSIVE SkipParentheses(_, _, _)
SkipParentheses(text, i, balance) ==
    LET now == IF At(text, i) = "(" THEN balance + 1
               ELSE IF At(text, i) = ")" THEN balance - 1 ELSE balance
    IN IF now > 0 /\ i + 1 < Len(text) THEN SkipParentheses(text, i + 1, now) ELSE i + 1

\* A token of the text: its kind, its number (or the value of its keyword),
\* its keyword type, its length and the place after it.
Token(tag, n, type, len, next) ==
    [tag |-> tag, n |-> n, type |-> type, len |-> len, next |-> next]

NumberToken(text, i, end) ==
    Token("number", ReadUnsignedNumeral(Slice(text, i, end)), "", end - i, end)

WordToken(text, i, end, keyword) == Token("word", keyword.value, keyword.type, end - i, end)

\* DateStringTokenizer::Scan: the token that begins at place i.
Scan(text, i) ==
    LET c == At(text, i)
    IN IF c = "" THEN Token("end", 0, "", 0, i)
       ELSE IF IsDigit(c) THEN NumberToken(text, i, Past(text, i, DigitBytes))
       ELSE IF c \in {":", "-", "+", ".", ")"} THEN Token(c, 0, "", 1, i + 1)
       ELSE IF IsWordChar(c)
       THEN WordToken(text, i, WordEnd(text, i),
                      Lookup(ReadWord(text, i, WordEnd(text, i)), WordEnd(text, i) - i))
       ELSE IF IsWhiteSpaceChar(c) THEN Token("space", 0, "", 1, i + 1)
       ELSE IF c = "(" THEN Token("unknown", 0, "", 0, SkipParentheses(text, i, 0))
       ELSE Token("unknown", 0, "", 1, i + 1)

\* The token is the word Z.
IsKeywordZ(token) == token.tag = "word" /\ token.type = "TIME_ZONE_NAME" /\ token.len = 1

\* No hour or minute of a zone was read.
None == -1

\* What the older reader has read: the place it is at, the numbers of the
\* day (at most 3), the month named, the numbers of the time (at most 4),
\* the hours AM or PM add, the sign, hour and minute of the zone, and
\* whether a number was read.
Composers(pos, day, read) ==
    [ok |-> TRUE, pos |-> pos, day |-> day, named |-> None, time |-> <<>>,
     hourOffset |-> None, sign |-> 0, hour |-> None, minute |-> None, read |-> read]

Refused(st) == [st EXCEPT !.ok = FALSE]

IsMinute(n) == n >= 0 /\ n <= 59
IsDay(n) == n >= 1 /\ n <= 31
IsMonth(n) == n >= 1 /\ n <= 12

\* TimeComposer::IsExpecting: the number n may be the next part of the time.
TimeIsExpecting(time, n) ==
    \/ Len(time) = 1 /\ IsMinute(n)
    \/ Len(time) = 2 /\ IsMinute(n)
    \/ Len(time) = 3 /\ n >= 0 /\ n <= 999

\* TimeComposer::AddFinal after the parts so far: zeros fill the four places.
Filled(comp, i, with) == IF i <= Len(comp) THEN comp[i] ELSE with

AddFinal(time) ==
    <<Filled(time, 1, 0), Filled(time, 2, 0), Filled(time, 3, 0), Filled(time, 4, 0)>>

\* TimeZoneComposer::IsExpecting: the minute of the zone is awaited.
ZoneIsExpecting(st, n) == st.hour # None /\ st.minute = None /\ IsMinute(n)

\* The place after a hyphen at place i, if there is one.
SkipHyphen(text, i) == IF At(text, i) = "-" THEN i + 1 ELSE i

\* A number that neither a colon follows nor a period the time awaits: the
\* minute of the zone, the last part of the time, or a number of the day.
PlainNumber(text, st, n, after) ==
    IF ZoneIsExpecting(st, n) THEN [st EXCEPT !.minute = n, !.pos = after]
    ELSE IF TimeIsExpecting(st.time, n)
    THEN (IF \/ Scan(text, after).tag \in {"end", "space", "+", "-"}
             \/ IsKeywordZ(Scan(text, after))
          THEN [st EXCEPT !.time = AddFinal(Append(st.time, n)), !.pos = after]
          ELSE Refused(st))
    ELSE IF Len(st.day) >= 3 THEN Refused(st)
    ELSE [st EXCEPT !.day = Append(st.day, n), !.pos = SkipHyphen(text, after)]

\* A number of the text, by what follows it: n: and n:: are parts of the
\* time, n. is one when the time awaits it, with the milliseconds after.
NumberRead(text, st, n, next) ==
    IF At(text, next) = ":"
    THEN (IF At(text, next + 1) = ":"
          THEN (IF st.time # <<>> THEN Refused(st)
                ELSE [st EXCEPT !.time = <<n, 0>>, !.pos = next + 2])
          ELSE IF Len(st.time) >= 4 THEN Refused(st)
          ELSE [st EXCEPT !.time = Append(st.time, n),
                          !.pos = IF At(text, next + 1) = "." THEN next + 2 ELSE next + 1])
    ELSE IF At(text, next) = "." /\ TimeIsExpecting(st.time, n)
    THEN (IF ~IsDigit(At(text, next + 1)) THEN Refused(st)
          ELSE [st EXCEPT
                  !.time = AddFinal(SubSeq(Append(Append(st.time, n),
                                                  ReadMilliseconds(Slice(text, next + 1,
                                                      Past(text, next + 1, DigitBytes)))),
                                           1, IF Len(st.time) = 3 THEN 4 ELSE Len(st.time) + 2)),
                  !.pos = Past(text, next + 1, DigitBytes)])
    ELSE PlainNumber(text, st, n, IF At(text, next) = "." THEN next + 1 ELSE next)

\* A word of the text: AM or PM after a time, a month, a zone after a
\* number; any other word is refused after a number or just before one.
WordRead(text, st, token) ==
    IF token.type = "AM_PM" /\ st.time # <<>>
    THEN [st EXCEPT !.hourOffset = token.n, !.pos = token.next]
    ELSE IF token.type = "MONTH_NAME"
    THEN [st EXCEPT !.named = token.n, !.pos = SkipHyphen(text, token.next)]
    ELSE IF token.type = "TIME_ZONE_NAME" /\ st.read
    THEN [st EXCEPT !.sign = IF token.n < 0 THEN -1 ELSE 1,
                    !.hour = IF token.n < 0 THEN -token.n ELSE token.n,
                    !.minute = 0, !.pos = token.next]
    ELSE IF st.read \/ IsDigit(At(text, token.next)) THEN Refused(st)
    ELSE [st EXCEPT !.pos = token.next]

\* The offset after a sign: h: (the minute follows), h or hh, hmm or hhmm.
OffsetRead(text, st, sign, n, length, after) ==
    IF At(text, after) = ":"
    THEN [st EXCEPT !.sign = sign, !.hour = n, !.minute = None, !.read = TRUE, !.pos = after]
    ELSE IF length \in {1, 2}
    THEN [st EXCEPT !.sign = sign, !.hour = n, !.minute = 0, !.read = TRUE, !.pos = after]
    ELSE IF length \in {3, 4}
    THEN [st EXCEPT !.sign = sign, !.hour = n \div 100, !.minute = n % 100,
                    !.read = TRUE, !.pos = after]
    ELSE Refused(st)

\* A sign of the text: an offset after UTC or after a time; else it is
\* refused after a number and passed over before one.
SignRead(text, st, token) ==
    IF (st.hour = 0 /\ st.minute = 0) \/ st.time # <<>>
    THEN (IF IsDigit(At(text, token.next))
          THEN OffsetRead(text, st, IF token.tag = "-" THEN -1 ELSE 1,
                          Scan(text, token.next).n, Scan(text, token.next).len,
                          Scan(text, token.next).next)
          ELSE OffsetRead(text, st, IF token.tag = "-" THEN -1 ELSE 1, 0, 0, token.next))
    ELSE IF st.read THEN Refused(st)
    ELSE [st EXCEPT !.pos = token.next]

\* One turn of the loop of DateParser::Parse.
TokenRead(text, st, token) ==
    IF token.tag = "number"
    THEN NumberRead(text, [st EXCEPT !.read = TRUE], token.n, token.next)
    ELSE IF token.tag = "word" THEN WordRead(text, st, token)
    ELSE IF token.tag \in {"+", "-"} THEN SignRead(text, st, token)
    ELSE IF token.tag = ")" /\ st.read THEN Refused(st)
    ELSE [st EXCEPT !.pos = token.next]

\* The loop of DateParser::Parse, to the end of the text.
RECURSIVE LegacyParse(_, _)
LegacyParse(text, st) ==
    IF ~st.ok \/ st.pos >= Len(text) THEN st
    ELSE LegacyParse(text, TokenRead(text, st, Scan(text, st.pos)))

\* A year of one or two digits outside a date-time text of ECMAScript.
CenturyOf(year) ==
    IF year >= 0 /\ year <= 49 THEN year + 2000
    ELSE IF year >= 50 /\ year <= 99 THEN year + 1900 ELSE year

YearMonthDay(ok, y, m, d) == [ok |-> ok /\ IsMonth(m) /\ IsDay(d), y |-> y, m |-> m, d |-> d]

\* DayComposer::Write of the numbers comp, filled to three with ones.
DayOf(comp, named) ==
    IF named = None
    THEN (IF ~IsDay(comp[1]) THEN YearMonthDay(TRUE, CenturyOf(comp[1]), comp[2], comp[3])
          ELSE YearMonthDay(TRUE, CenturyOf(comp[3]), comp[1], comp[2]))
    ELSE IF ~IsDay(comp[1]) THEN YearMonthDay(TRUE, CenturyOf(comp[1]), named, comp[2])
    ELSE YearMonthDay(TRUE, CenturyOf(comp[2]), named, comp[1])

DayWrite(st) ==
    IF st.day = <<>> THEN YearMonthDay(FALSE, 0, 1, 1)
    ELSE DayOf(<<Filled(st.day, 1, 1), Filled(st.day, 2, 1), Filled(st.day, 3, 1)>>, st.named)

HourMinute(ok, hh, mm, ss, ms) ==
    [ok |-> /\ ok
            /\ \/ hh >= 0 /\ hh <= 23 /\ IsMinute(mm) /\ IsMinute(ss) /\ ms >= 0 /\ ms <= 999
               \/ hh = 24 /\ mm = 0 /\ ss = 0 /\ ms = 0,
     hh |-> hh, mm |-> mm, ss |-> ss, ms |-> ms]

\* TimeComposer::Write of the numbers comp, filled to four with zeros.
TimeOf(comp, hourOffset) ==
    IF hourOffset = None THEN HourMinute(TRUE, comp[1], comp[2], comp[3], comp[4])
    ELSE HourMinute(comp[1] >= 0 /\ comp[1] <= 12, (comp[1] % 12) + hourOffset,
                    comp[2], comp[3], comp[4])

TimeWrite(st) == TimeOf(AddFinal(st.time), st.hourOffset)

\* hour * 3600 + minute * 60 within 32 bits, by halves of 16 bits: the low
\* half with its carry, and the high half.
OffsetLow(hour, minute) == (hour % 65536) * 3600 + minute * 60
OffsetHigh(hour, minute) == ((hour \div 65536) * 3600 + OffsetLow(hour, minute) \div 65536) % 65536

\* TimeZoneComposer::Write: the seconds east of UTC, when they fit a
\* small integer of 32 bits; without a sign the text is in the host's zone.
ZoneOf(sign, hour, minute) ==
    [ok |-> sign = 0 \/ OffsetHigh(hour, minute) < 32768, local |-> sign = 0, sign |-> sign,
     seconds |-> IF sign = 0 THEN 0
                 ELSE OffsetHigh(hour, minute) * 65536 + (OffsetLow(hour, minute) % 65536)]

ZoneWrite(st) ==
    ZoneOf(st.sign, IF st.hour = None THEN 0 ELSE st.hour,
           IF st.minute = None THEN 0 ELSE st.minute)

\* The instant of a civil time in a zone: the host's zone at that reading
\* of its wall clock for a local one, else the seconds the text names.
InZone(at, tz, zone) ==
    IF tz.local THEN Norm(at.day, at.sec - ZoneOffsetOfLocal(zone, at), at.ns)
    ELSE Norm(at.day - tz.sign * (tz.seconds \div 86400),
              at.sec - tz.sign * (tz.seconds % 86400), at.ns)

\* The largest year MakeDay takes.
MaxYear == 1000000

\* MakeDay, MakeTime, MakeDate and TimeClip of what the parser wrote.
MadeDate(ok, at) ==
    LET valid == /\ ok
                 /\ ~Before(at, Instant(-MaxDateDays, 0, 0))
                 /\ ~Before(Instant(MaxDateDays, 0, 0), at)
    IN [valid |-> valid, at |-> IF valid THEN at ELSE AtSeconds(0)]

MakeDate(day, time, tz, zone) ==
    IF ~(day.ok /\ time.ok /\ tz.ok) \/ day.y < -MaxYear \/ day.y > MaxYear
    THEN MadeDate(FALSE, AtSeconds(0))
    ELSE MadeDate(TRUE, InZone(Norm(DaysFromCivil(day.y, day.m, day.d),
                                    time.hh * 3600 + time.mm * 60 + time.ss,
                                    time.ms * 1000000), tz, zone))

\* The Date of a text the older reader has read to its end.
LegacyDate(st, zone) ==
    IF ~st.ok THEN MadeDate(FALSE, AtSeconds(0))
    ELSE MakeDate(DayWrite(st), TimeWrite(st), ZoneWrite(st), zone)

\* What has been read of a date-time text of ECMAScript, and what is left of
\* it: ok is false for an Invalid Date, old is true for a text that goes to
\* the older reader from rest on, with got numbers of the day read.
JsRead(ok, rest, y, mo, d, hh, mm, ss, ms) ==
    [ok |-> ok, old |-> FALSE, got |-> 0, timed |-> FALSE, rest |-> rest, y |-> y, mo |-> mo,
     d |-> d, hh |-> hh, mm |-> mm, ss |-> ss, ms |-> ms, sign |-> 0, zh |-> 0, zm |-> 0]

JsBad(p) == [p EXCEPT !.ok = FALSE]

JsOld(p, rest) == [p EXCEPT !.old = TRUE, !.rest = rest]

\* The year: four digits, or a sign and six digits.  After -000000 the
\* older reader goes on with no number read.
JsYearOf(text, sign, run) ==
    IF (sign = "" /\ Len(run) # 4) \/ (sign # "" /\ Len(run) # 6)
    THEN JsOld(JsRead(TRUE, text, 0, 1, 1, 0, 0, 0, 0), text)
    ELSE IF sign = "-" /\ DigitsVal(run) = 0
    THEN JsOld(JsRead(TRUE, text, 0, 1, 1, 0, 0, 0, 0), From(text, 7))
    ELSE [JsRead(TRUE, From(text, Len(sign) + Len(run)),
                 IF sign = "-" THEN -DigitsVal(run) ELSE DigitsVal(run), 1, 1, 0, 0, 0, 0)
            EXCEPT !.got = 1]

JsYear(text) ==
    IF At(text, 0) \in {"+", "-"} THEN JsYearOf(text, At(text, 0), DigitRun(From(text, 1)))
    ELSE JsYearOf(text, "", DigitRun(text))

\* A field of two digits after the byte sep, at most most.
JsTwoDigits(p, run, least, most) ==
    Len(run) = 2 /\ DigitsVal(run) >= least /\ DigitsVal(run) <= most

\* -MM, if a hyphen follows.
JsMonthOf(p, run) ==
    IF JsTwoDigits(p, run, 1, 12)
    THEN [p EXCEPT !.mo = DigitsVal(run), !.got = 2, !.rest = From(p.rest, 3)]
    ELSE JsOld(p, From(p.rest, 1))

\* -DD, if a hyphen follows the month.
JsDayOf(p, run) ==
    IF JsTwoDigits(p, run, 1, 31)
    THEN [p EXCEPT !.d = DigitsVal(run), !.got = 3, !.rest = From(p.rest, 3)]
    ELSE JsOld(p, From(p.rest, 1))

JsMonthDay(p) ==
    IF p.old \/ At(p.rest, 0) # "-" THEN p
    ELSE LET m == JsMonthOf(p, DigitRun(From(p.rest, 1)))
         IN IF m.old \/ At(m.rest, 0) # "-" THEN m
            ELSE JsDayOf(m, DigitRun(From(m.rest, 1)))

\* THH: the hours, up to 24.
JsHourOf(p, run) ==
    IF JsTwoDigits(p, run, 0, 24)
    THEN [p EXCEPT !.hh = DigitsVal(run), !.timed = TRUE, !.rest = From(p.rest, 3)]
    ELSE JsBad(p)

\* The date ends the text, or the word T follows it.
JsHour(p) ==
    IF p.old \/ p.rest = "" THEN p
    ELSE IF At(p.rest, 0) \notin {"T", "t"} \/ IsAsciiAlphaOrAbove(At(p.rest, 1))
    THEN JsOld(p, p.rest)
    ELSE JsHourOf(p, DigitRun(From(p.rest, 1)))

\* :mm, and nothing but 00 after the hour 24.
JsMinuteOf(p, run) ==
    IF JsTwoDigits(p, run, 0, IF p.hh = 24 THEN 0 ELSE 59)
    THEN [p EXCEPT !.mm = DigitsVal(run), !.rest = From(p.rest, 3)] ELSE JsBad(p)

JsMinute(p) ==
    IF ~p.ok \/ ~p.timed THEN p
    ELSE IF At(p.rest, 0) # ":" THEN JsBad(p)
    ELSE JsMinuteOf(p, DigitRun(From(p.rest, 1)))

\* :ss, if a colon follows.
JsSecondOf(p, run) ==
    IF JsTwoDigits(p, run, 0, IF p.hh = 24 THEN 0 ELSE 59)
    THEN [p EXCEPT !.ss = DigitsVal(run), !.rest = From(p.rest, 3)] ELSE JsBad(p)

\* A fraction of the second of any length, if a period follows the seconds.
JsFractionOf(p, run) ==
    IF run = "" \/ (p.hh = 24 /\ ReadUnsignedNumeral(run) # 0) THEN JsBad(p)
    ELSE [p EXCEPT !.ms = ReadMilliseconds(run), !.rest = From(p.rest, 1 + Len(run))]

JsSecond(p) ==
    IF ~p.ok \/ ~p.timed \/ At(p.rest, 0) # ":" THEN p
    ELSE LET sec == JsSecondOf(p, DigitRun(From(p.rest, 1)))
         IN IF ~sec.ok \/ At(sec.rest, 0) # "." THEN sec
            ELSE JsFractionOf(sec, DigitRun(From(sec.rest, 1)))

\* The offset after the sign: hhmm, or hh:mm.
JsOffsetOf(p, sign, run, after) ==
    IF Len(run) = 4 /\ DigitsVal(run) \div 100 <= 23 /\ DigitsVal(run) % 100 <= 59
    THEN [p EXCEPT !.sign = sign, !.zh = DigitsVal(run) \div 100, !.zm = DigitsVal(run) % 100,
                   !.rest = after]
    ELSE IF /\ Len(run) = 2 /\ DigitsVal(run) <= 23 /\ At(after, 0) = ":"
            /\ JsTwoDigits(p, DigitRun(From(after, 1)), 0, 59)
    THEN [p EXCEPT !.sign = sign, !.zh = DigitsVal(run),
                   !.zm = DigitsVal(DigitRun(From(after, 1))), !.rest = From(after, 3)]
    ELSE JsBad(p)

\* The zone after the time: the word Z, an offset, or none.
JsZone(p) ==
    IF ~p.ok \/ ~p.timed THEN p
    ELSE IF p.rest \in {"Z", "z"} THEN [p EXCEPT !.sign = 1, !.rest = ""]
    ELSE IF At(p.rest, 0) \in {"+", "-"}
    THEN JsOffsetOf(p, IF At(p.rest, 0) = "-" THEN -1 ELSE 1, DigitRun(From(p.rest, 1)),
                    From(p.rest, 1 + Len(DigitRun(From(p.rest, 1)))))
    ELSE p

\* The Date of a date-time text of ECMAScript read to its end: a date
\* alone is in UTC, a date and a time without a zone are in the host's.
JsDateRead(p, engine, zone) ==
    IF ~p.ok \/ p.rest # "" \/ (p.d > DaysIn(p.mo, p.y) /\ engine # "rollover")
    THEN MadeDate(FALSE, AtSeconds(0))
    ELSE MakeDate(YearMonthDay(TRUE, p.y, p.mo, p.d), HourMinute(TRUE, p.hh, p.mm, p.ss, p.ms),
                  ZoneOf(IF p.timed THEN p.sign ELSE 1, p.zh, p.zm), zone)

\* DateParser::Parse: the text is read as a date-time text of ECMAScript,
\* and from the place where it leaves that form by the older reader.
JsDateParsed(text, p, engine, zone) ==
    IF ~p.old THEN JsDateRead(p, engine, zone)
    ELSE IF engine # "rollover" THEN MadeDate(FALSE, AtSeconds(0))
    ELSE LegacyDate(LegacyParse(text, Composers(Len(text) - Len(p.rest),
                                                SubSeq(<<p.y, p.mo, p.d>>, 1, p.got),
                                                p.got > 0)), zone)

\* new Date(text) on a host of the zone given.
JsDateParse(text, engine, zone) ==
    JsDateParsed(text, JsZone(JsSecond(JsMinute(JsHour(JsMonthDay(JsYear(text)))))),
                 engine, zone)

\* The year of toISOString: four digits in the years 0000 to 9999, and a
\* sign and six digits outside them.
JsYearText(year) ==
    IF year >= 0 /\ year <= 9999 THEN ZeroPad(Itoa(year), 4)
    ELSE IF year < 0 THEN "-" \o ZeroPad(Itoa(-year), 6)
    ELSE "+" \o ZeroPad(Itoa(year), 6)

JsDateText(c) == JsYearText(c.year) \o "-" \o Pad(c.month, 2) \o "-" \o Pad(c.day, 2)

\* Date.prototype.toISOString.
JsToISOString(at) ==
    JsDateText(CivilFromDays(at.day)) \o "T" \o RenderClock(at.sec) \o "."
       \o Pad(at.ns \div 1000000, 3) \o "Z"

(***************************************************************************)
(* The helpers of github.com/tinywasm/fmt the package uses.                *)
(***************************************************************************)

\* Convert(s).Int(): decimal digits with an optional minus sign.
ConvertInt(s) ==
    LET neg  == At(s, 0) = "-"
        body == IF neg THEN From(s, 1) ELSE s
    IN IF AllDigits(body) /\ Len(body) <= 9
       THEN [ok |-> TRUE, n |-> IF neg THEN -DigitsVal(body) ELSE DigitsVal(body)]
       ELSE [ok |-> FALSE, n |-> 0]

\* The count a text of nanoseconds names, when an int64 holds it: from
\* -2^63 to 2^63 - 1.
Int64Of(neg, mag) ==
    IF neg THEN [ok |-> ~Before(TwoTo63, mag), at |-> IF Before(TwoTo63, mag) THEN AtSeconds(0)
                                                      ELSE Negated(mag)]
    ELSE [ok |-> Before(mag, TwoTo63), at |-> IF Before(mag, TwoTo63) THEN mag ELSE AtSeconds(0)]

\* Convert(s).Int64() of a text of nanoseconds, as an instant: the first
\* five of its nineteen digits count spans of 10^5 seconds (a day and 13600
\* seconds), the next five count seconds.  The result is an int64: a text
\* that names a count outside -2^63 .. 2^63 - 1 is taken to give an error,
\* as strconv.ParseInt does (the library is not part of the repository).
ConvertInt64(s) ==
    LET neg  == At(s, 0) = "-"
        body == IF neg THEN From(s, 1) ELSE s
        sig  == CutZeros(body)
        full == ZeroPad(sig, 19)
        top  == DigitsVal(Slice(full, 0, 5))
        mid  == DigitsVal(Slice(full, 5, 10))
        lo   == DigitsVal(Slice(full, 10, 19))
    IN IF ~AllDigits(body) \/ Len(sig) > 19 THEN [ok |-> FALSE, at |-> AtSeconds(0)]
       ELSE Int64Of(neg, Norm(top, top * 13600 + mid, lo))

\* Convert(s).Split(":"): the parts of s between the colons.
RECURSIVE SplitColon(_, _)
SplitColon(s, cur) ==
    IF s = "" THEN <<cur>>
    ELSE IF At(s, 0) = ":" THEN <<cur>> \o SplitColon(From(s, 1), "")
    ELSE SplitColon(From(s, 1), cur \o At(s, 0))

Split(s) == SplitColon(s, "")

(***************************************************************************)
(* Results of the Parse operations: a value and an error ("" for nil).     *)
(***************************************************************************)
Ok(v) == [val |-> v, err |-> ""]
Fail(kind) == [val |-> 0, err |-> kind]

\* Mutant of parseTime: the bound of the hours is off by one, 24 passes.
parseTime_HoursTo24(timeStr) ==
    LET parts   == Split(timeStr)
        hours   == ConvertInt(parts[1])
        minutes == ConvertInt(parts[2])
    IN IF Len(parts) < 2 THEN Fail("invalid time format")
       ELSE IF ~hours.ok \/ hours.n < 0 \/ hours.n > 24 THEN Fail("invalid hours")
       ELSE IF ~minutes.ok \/ minutes.n < 0 \/ minutes.n > 59 THEN Fail("invalid minutes")
       ELSE Ok(hours.n * 60 + minutes.n)

\* Mutant of parseTime: a third part is rounded into the minutes.
parseTime_RoundsSeconds(timeStr) ==
    LET parts   == Split(timeStr)
        hours   == ConvertInt(parts[1])
        minutes == ConvertInt(parts[2])
        seconds == IF Len(parts) >= 3 /\ ConvertInt(parts[3]).ok
                   THEN ConvertInt(parts[3]).n ELSE 0
    IN IF Len(parts) < 2 THEN Fail("invalid time format")
       ELSE IF ~hours.ok \/ hours.n < 0 \/ hours.n > 23 THEN Fail("invalid hours")
       ELSE IF ~minutes.ok \/ minutes.n < 0 \/ minutes.n > 59 THEN Fail("invalid minutes")
       ELSE Ok(hours.n * 60 + minutes.n + (IF seconds >= 30 THEN 1 ELSE 0))

\* parseTime, shared by both backends.
parseTime(timeStr) ==
    LET parts   == Split(timeStr)
        hours   == ConvertInt(parts[1])
        minutes == ConvertInt(parts[2])
    IN IF Len(parts) < 2 THEN Fail("invalid time format")
       ELSE IF ~hours.ok \/ hours.n < 0 \/ hours.n > 23 THEN Fail("invalid hours")
       ELSE IF ~minutes.ok \/ minutes.n < 0 \/ minutes.n > 59 THEN Fail("invalid minutes")
       ELSE Ok(hours.n * 60 + minutes.n)

(***************************************************************************)
(* The native backend, timeServer.  The parameter offset is the value      *)
(* getOffsetMinutes() loads during the call.                               *)
(***************************************************************************)

\* time.Duration(offset) * time.Minute: the minutes as an int64 of
\* nanoseconds, which holds 153722867 of them and wraps beyond.
MinutesDuration(offset) == Int64(Norm(offset \div 1440, (offset % 1440) * 60, 0))

\* timeServer.applyOffset: t.Add(time.Duration(offset) * time.Minute).
ServerApplyOffset(t, offset) ==
    Norm(t.day + MinutesDuration(offset).day, t.sec + MinutesDuration(offset).sec,
         t.ns + MinutesDuration(offset).ns)

\* time.Unix(0, v).UTC() moved by applyOffset.
ServerLocal(v, offset) == ServerApplyOffset(v, offset)

ServerFormatDate(value, offset) ==
    IF value.type = "int64" THEN RenderDate(ServerLocal(value.at, offset).day)
    ELSE IF value.type = "string" /\ GoParse(LayoutDate, value.s).ok THEN value.s
    ELSE ""

ServerFormatTime(value, offset) ==
    IF value.type = "int64" THEN RenderClock(ServerLocal(value.at, offset).sec)
    ELSE IF value.type = "int16"
         THEN Pad(Quot(value.n, 60), 2) \o ":" \o Pad(Rem(value.n, 60), 2)
    ELSE IF value.type = "string"
         THEN (IF ConvertInt64(value.s).ok
               THEN RenderClock(ServerLocal(ConvertInt64(value.s).at, offset).sec)
               ELSE IF Count(value.s, ":") >= 1 THEN value.s ELSE "")
    ELSE ""

ServerFormatDateTime(value, offset) ==
    IF value.type = "int64"
    THEN LET t == ServerLocal(value.at, offset)
         IN RenderDate(t.day) \o " " \o RenderClock(t.sec)
    ELSE IF value.type = "string" /\ GoParse(LayoutFull, value.s).ok THEN value.s
    ELSE ""

ServerFormatDateTimeShort(value, offset) ==
    IF value.type = "int64"
    THEN LET t == ServerLocal(value.at, offset)
         IN RenderDate(t.day) \o " " \o Slice(RenderClock(t.sec), 0, 5)
    ELSE IF value.type = "string" /\ GoParse(LayoutShort, value.s).ok THEN value.s
    ELSE ""

\* if err != nil { return 0, err }; return t.UnixNano(), nil
UnixNanoOf(r) == IF ~r.ok THEN Fail(r.err) ELSE Ok(Int64(r.at))

ServerParseDate(dateStr) == UnixNanoOf(GoParse(LayoutDate, dateStr))

ServerParseDateTime(dateStr, timeStr) ==
    UnixNanoOf(GoParse(IF ByteLen(timeStr) = 5 THEN LayoutShort ELSE LayoutFull,
                       dateStr \o " " \o timeStr))

(***************************************************************************)
(* The bridged backend, timeClient.                                        *)
(***************************************************************************)

\* 2 to the power n.
RECURSIVE PowerOfTwo(_)
PowerOfTwo(n) == IF n = 0 THEN 1 ELSE 2 * PowerOfTwo(n - 1)

\* 2^53 nanoseconds, up to where a float64 holds every nanosecond.
TwoTo53 == Instant(104, 21599, 254740992)

\* The powers of two above it that an int64 of nanoseconds reaches, and the
\* powers of two, in milliseconds, that the sum of an int64 of nanoseconds
\* and an int32 of minutes reaches: 2^14 ms to 2^48 ms.
NanoOrders == [n \in 1..9 |-> Doubled(TwoTo53, n)]
MsOrders ==
    <<Instant(0, 16, 384000000), Instant(0, 32, 768000000), Instant(0, 65, 536000000),
      Instant(0, 131, 72000000), Instant(0, 262, 144000000), Instant(0, 524, 288000000),
      Instant(0, 1048, 576000000), Instant(0, 2097, 152000000),
      Instant(0, 4194, 304000000), Instant(0, 8388, 608000000),
      Instant(0, 16777, 216000000), Instant(0, 33554, 432000000),
      Instant(0, 67108, 864000000), Instant(1, 47817, 728000000),
      Instant(3, 9235, 456000000), Instant(6, 18470, 912000000),
      Instant(12, 36941, 824000000), Instant(24, 73883, 648000000),
      Instant(49, 61367, 296000000), Instant(99, 36334, 592000000),
      Instant(198, 72669, 184000000), Instant(397, 58938, 368000000),
      Instant(795, 31476, 736000000), Instant(1590, 62953, 472000000),
      Instant(3181, 39506, 944000000), Instant(6362, 79013, 888000000),
      Instant(12725, 71627, 776000000), Instant(25451, 56855, 552000000),
      Instant(50903, 27311, 104000000), Instant(101806, 54622, 208000000),
      Instant(203613, 22844, 416000000), Instant(407226, 45688, 832000000),
      Instant(814453, 4977, 664000000), Instant(1628906, 9955, 328000000),
      Instant(3257812, 19910, 656000000)>>

\* How many of the powers of two in orders the count mag has reached.
Doublings(mag, orders) == Cardinality({n \in DOMAIN orders : ~Before(mag, orders[n])})

\* The multiple of m = 2^k nearest to the count mag of nanoseconds, a tie
\* going to the even one.  The count modulo 2^(k+1) is that of
\* (sec % 4) * 512 + ns, 10^9 being 512 modulo 2048.
NearestMultiple(mag, m) ==
    LET w   == (mag.sec % 4) * 512 + mag.ns
        rem == w % m
        up  == rem > m \div 2 \/ (rem = m \div 2 /\ w % (2 * m) >= m)
    IN IF up THEN Norm(mag.day, mag.sec, mag.ns + (m - rem))
       ELSE Norm(mag.day, mag.sec, mag.ns - rem)

Float64Of(nano, near) == IF nano.day < 0 THEN Negated(near) ELSE near

\* float64(nano): the nearest value with 53 significant bits.  From
\* 2^(52+k) nanoseconds on that is a multiple of 2^k.
Float64(nano) ==
    IF Before(Magnitude(nano), TwoTo53) THEN nano
    ELSE Float64Of(nano, NearestMultiple(Magnitude(nano),
                             PowerOfTwo(1 + Doublings(Magnitude(nano), NanoOrders))))

\* The binary order of a count of milliseconds: j when it lies in
\* 2^j .. 2^(j+1), 13 for every count below 2^14.
MsOrder(mag) == 13 + Doublings(mag, MsOrders)

\* new Date(ms) keeps the whole milliseconds of ms, cut toward zero.
JsDateOf(at) ==
    LET mag == Magnitude(at)
        cut == Instant(mag.day, mag.sec, mag.ns - (mag.ns % 1000000))
    IN IF at.day < 0 THEN Negated(cut) ELSE cut

\* 10^6 / 2^d, rounded up.
SharePast(d) == IF d >= 20 THEN 1 ELSE (1000000 + PowerOfTwo(d) - 1) \div PowerOfTwo(d)

\* The quotient x/1e6, of the binary order given, is rounded to a multiple
\* of 2^(order-52) ms, and its sum with the offset, of the order sumOrder,
\* once more to a multiple of 2^(sumOrder-52) ms when that is coarser.  The
\* exact sum lacks so many nanoseconds to its next whole millisecond; the
\* sum of the host reaches that millisecond when
\*   lacks * 2^(53-order) < 10^6                        (the sum is exact),
\*   lacks * 2^(53-sumOrder) < 10^6 + 10^6 / 2^(sumOrder-order)   (it is not).
RoundsToNextMs(lacks, order, sumOrder) ==
    IF sumOrder <= order
    THEN order >= 34 /\ lacks <= 999999 \div PowerOfTwo(53 - order)
    ELSE sumOrder >= 33
            /\ lacks <= (999999 + SharePast(sumOrder - order)) \div PowerOfTwo(53 - sumOrder)

\* The Date of the sum: its whole milliseconds, cut toward zero, and one
\* more where the rounded sum reaches the next.
DateOfSum(x, sum, date) ==
    IF ~RoundsToNextMs(1000000 - (Magnitude(sum).ns % 1000000),
                       MsOrder(Magnitude(x)), MsOrder(Magnitude(sum)))
    THEN date
    ELSE IF sum.day < 0 THEN Norm(date.day, date.sec, date.ns - 1000000)
    ELSE Norm(date.day, date.sec, date.ns + 1000000)

\* The exact sum of x nanoseconds and offset minutes.
PlusMinutes(x, offset) == Norm(x.day + offset \div 1440, x.sec + (offset % 1440) * 60, x.ns)

ShiftedBy(x, offset) == DateOfSum(x, PlusMinutes(x, offset), JsDateOf(PlusMinutes(x, offset)))

\* timeClient.applyOffset: new Date(float64(nano)/1e6 + offsetMs).
ClientApplyOffset(nano, offset) == ShiftedBy(Float64(nano), offset)

ClientFormatDate(value, offset) ==
    IF value.type = "int64"
    THEN Slice(JsToISOString(ClientApplyOffset(value.at, offset)), 0, 10)
    ELSE IF /\ value.type = "string"
            /\ ByteLen(value.s) = 10 /\ ByteAt(value.s, 4) = "-" /\ ByteAt(value.s, 7) = "-"
         THEN value.s
    ELSE ""

ClientFormatTime(value, offset) ==
    LET hms(t) == Pad(UTCHours(t), 2) \o ":" \o Pad(UTCMinutes(t), 2)
                     \o ":" \o Pad(UTCSeconds(t), 2)
    IN IF value.type = "int64" THEN hms(ClientApplyOffset(value.at, offset).sec)
       ELSE IF value.type = "int16"
            THEN Pad(Quot(value.n, 60), 2) \o ":" \o Pad(Rem(value.n, 60), 2)
       ELSE IF value.type = "string"
            THEN (IF ConvertInt64(value.s).ok
                  THEN LET nano == ConvertInt64(value.s).at
                       IN hms(ClientApplyOffset(nano, offset).sec)
                  ELSE IF Count(value.s, ":") >= 1 THEN value.s ELSE "")
       ELSE ""

ClientFormatDateTime(value, offset) ==
    IF value.type = "int64"
    THEN LET iso == JsToISOString(ClientApplyOffset(value.at, offset))
         IN Slice(iso, 0, 10) \o " " \o Slice(iso, 11, 19)
    ELSE IF /\ value.type = "string"
            /\ ByteLen(value.s) = 19 /\ ByteAt(value.s, 4) = "-" /\ ByteAt(value.s, 7) = "-"
            /\ ByteAt(value.s, 10) = " " /\ ByteAt(value.s, 13) = ":" /\ ByteAt(value.s, 16) = ":"
         THEN value.s
    ELSE ""

\* Mutant of ClientFormatDateTimeShort: a text with seconds is cut to its
\* first 16 bytes.
ClientFormatDateTimeShort_CutsSeconds(value, offset) ==
    IF value.type = "int64"
    THEN LET iso == JsToISOString(ClientApplyOffset(value.at, offset))
         IN Slice(iso, 0, 10) \o " " \o Slice(iso, 11, 16)
    ELSE IF /\ value.type = "string"
            /\ ByteLen(value.s) >= 16 /\ ByteAt(value.s, 4) = "-" /\ ByteAt(value.s, 7) = "-"
            /\ ByteAt(value.s, 10) = " " /\ ByteAt(value.s, 13) = ":"
         THEN Slice(value.s, 0, 16)
    ELSE ""

ClientFormatDateTimeShort(value, offset) ==
    IF value.type = "int64"
    THEN LET iso == JsToISOString(ClientApplyOffset(value.at, offset))
         IN Slice(iso, 0, 10) \o " " \o Slice(iso, 11, 16)
    ELSE IF /\ value.type = "string"
            /\ ByteLen(value.s) = 16 /\ ByteAt(value.s, 4) = "-" /\ ByteAt(value.s, 7) = "-"
            /\ ByteAt(value.s, 10) = " " /\ ByteAt(value.s, 13) = ":"
         THEN value.s
    ELSE ""

\* Mutant of ClientParseDate: the fields of the Date are not compared with
\* the text, the instant the host made is returned.
ClientParseDate_NoRoundTrip(dateStr, engine, zone) ==
    IF ByteLen(dateStr) # 10 \/ ByteAt(dateStr, 4) # "-" \/ ByteAt(dateStr, 7) # "-"
    THEN Fail("invalid date format (expected YYYY-MM-DD)")
    ELSE LET jsDate == JsDateParse(dateStr \o "T00:00:00Z", engine, zone)
         IN IF ~jsDate.valid THEN Fail("invalid date format")
            ELSE Ok(Int64(jsDate.at))

\* The rest of timeClient.ParseDate, from the Date the host made on.
ClientParsedDate(dateStr, jsDate) ==
    IF ~jsDate.valid THEN Fail("invalid date format")
    ELSE IF RenderDate(jsDate.at.day) # dateStr THEN Fail("invalid date (auto-corrected)")
    ELSE Ok(Int64(jsDate.at))

ClientParseDate(dateStr, engine, zone) ==
    IF ByteLen(dateStr) # 10 \/ ByteAt(dateStr, 4) # "-" \/ ByteAt(dateStr, 7) # "-"
    THEN Fail("invalid date format (expected YYYY-MM-DD)")
    ELSE ClientParsedDate(dateStr, JsDateParse(dateStr \o "T00:00:00Z", engine, zone))

\* The rest of timeClient.ParseDateTime, from the Date the host made on.
ClientParsedDateTime(jsDate) ==
    IF ~jsDate.valid THEN Fail("invalid date/time format") ELSE Ok(Int64(jsDate.at))

ClientParseDateTime(dateStr, timeStr, engine, zone) ==
    ClientParsedDateTime(
        JsDateParse(dateStr \o "T" \o (IF ByteLen(timeStr) = 5 THEN timeStr \o ":00" ELSE timeStr)
                       \o "Z", engine, zone))

(***************************************************************************)
(* The free functions of the package, forwarding to the selected backend.  *)
(***************************************************************************)
FormatDate(p, value, offset) ==
    IF p = "timeServer" THEN ServerFormatDate(value, offset)
    ELSE ClientFormatDate(value, offset)

FormatTime(p, value, offset) ==
    IF p = "timeServer" THEN ServerFormatTime(value, offset)
    ELSE ClientFormatTime(value, offset)

FormatDateTime(p, value, offset) ==
    IF p = "timeServer" THEN ServerFormatDateTime(value, offset)
    ELSE ClientFormatDateTime(value, offset)

FormatDateTimeShort(p, value, offset) ==
    IF p = "timeServer" THEN ServerFormatDateTimeShort(value, offset)
    ELSE ClientFormatDateTimeShort(value, offset)

ParseDate(p, engine, zone, dateStr) ==
    IF p = "timeServer" THEN ServerParseDate(dateStr)
    ELSE ClientParseDate(dateStr, engine, zone)

ParseTime(p, timeStr) == parseTime(timeStr)

ParseDateTime(p, engine, zone, dateStr, timeStr) ==
    IF p = "timeServer" THEN ServerParseDateTime(dateStr, timeStr)
    ELSE ClientParseDateTime(dateStr, timeStr, engine, zone)

FormatOps == {"FormatDate", "FormatTime", "FormatDateTime", "FormatDateTimeShort"}

ParseOps == {"ParseDate", "ParseTime", "ParseDateTime"}

\* The result of the Format operation named op.
FormatBy(op, p, value, offset) ==
    CASE op = "FormatDate" -> FormatDate(p, value, offset)
      [] op = "FormatTime" -> FormatTime(p, value, offset)
      [] op = "FormatDateTime" -> FormatDateTime(p, value, offset)
      [] op = "FormatDateTimeShort" -> FormatDateTimeShort(p, value, offset)

\* 2006-07-14T23:58:24.9999999Z, 1152921504999999900 ns: the first whole
\* second past 2^60 ns less 100 ns.  From 2^60 a float64 holds every 256th
\* nanosecond, below it every 128th.
NearTwoTo60 == Instant(13343, 86304, 999999900)

\* The values given to the Format operations.
FormatValues ==
    {I64(n) : n \in Instants} \cup {I64At(NearTwoTo60), I16(510), PlainInt(123)}
       \cup {Str(x) : x \in {"2024-01-15", "14:45", "1609459200000000000", "-1"}}

(***************************************************************************)
(* The bridged (host event loop) realization: WasmTimer.                   *)
(***************************************************************************)

\* The timer object built by timeClient.AfterFunc: active, callback stored,
\* wrapper created, host timeout handle stored in id.
NewWasmTimer(t, f) == [kind |-> "WasmTimer", id |-> t, active |-> TRUE, f |-> f]

\* Mutant of WasmTimer_Stop: the assignment wt.active = false is forgotten.
WasmTimer_Stop_KeepsActive(wt) ==
    IF ~wt.active
    THEN [ret |-> FALSE, wt |-> wt, clear |-> FALSE, release |-> FALSE]
    ELSE [ret |-> TRUE, wt |-> wt, clear |-> TRUE, release |-> TRUE]

\* WasmTimer.Stop: the result, the timer afterwards, and whether clearTimeout
\* and jsFunc.Release() were called.
WasmTimer_Stop(wt) ==
    IF ~wt.active
    THEN [ret |-> FALSE, wt |-> wt, clear |-> FALSE, release |-> FALSE]
    ELSE [ret |-> TRUE, wt |-> [wt EXCEPT !.active = FALSE],
          clear |-> TRUE, release |-> TRUE]

\* Mutant of WasmTimer_Fire: the guard on wt.active is missing.
WasmTimer_Fire_Unguarded(wt) ==
    [wt |-> [wt EXCEPT !.active = FALSE], fired |-> TRUE,
     release |-> TRUE, invoke |-> wt.f # "nil"]

\* Mutant of WasmTimer_Fire: the wrapper is released before the guard.
WasmTimer_Fire_ReleasesFirst(wt) ==
    IF ~wt.active
    THEN [wt |-> wt, fired |-> FALSE, release |-> TRUE, invoke |-> FALSE]
    ELSE [wt |-> [wt EXCEPT !.active = FALSE], fired |-> TRUE,
          release |-> TRUE, invoke |-> wt.f # "nil"]

\* WasmTimer.Fire: the timer afterwards, whether jsFunc.Release() was called
\* and whether the callback was invoked.
WasmTimer_Fire(wt) ==
    IF ~wt.active
    THEN [wt |-> wt, fired |-> FALSE, release |-> FALSE, invoke |-> FALSE]
    ELSE [wt |-> [wt EXCEPT !.active = FALSE], fired |-> TRUE,
          release |-> TRUE, invoke |-> wt.f # "nil"]

(***************************************************************************)
(* The native realization: timerWrapper around the runtime's time.Timer.   *)
(***************************************************************************)

\* The timer object built by timeServer.AfterFunc.
NewTimerWrapper(f) == [kind |-> "timerWrapper", timer |-> "pending", f |-> f]

\* timerWrapper.Stop: tw.timer.Stop() reports whether the call stopped a
\* timer that was still pending.
TimerWrapper_Stop(tw) ==
    IF tw.timer = "pending"
    THEN [ret |-> TRUE, tw |-> [tw EXCEPT !.timer = "stopped"]]
    ELSE [ret |-> FALSE, tw |-> tw]

\* Mutant of TimerWrapper_Expire: the callback is dropped, f is never started.
TimerWrapper_Expire_DropsCallback(tw) ==
    IF tw.timer = "pending"
    THEN [tw |-> [tw EXCEPT !.timer = "fired"], fired |-> TRUE, invoke |-> FALSE]
    ELSE [tw |-> tw, fired |-> FALSE, invoke |-> FALSE]

\* The runtime's expiry of a timer made by time.AfterFunc: f is started in
\* its own goroutine, once ("go f()").  Starting a nil f is a fatal error
\* of the runtime ("go of nil func value"); the timer is then left crashed.
TimerWrapper_Expire(tw) ==
    IF tw.timer = "pending"
    THEN [tw |-> [tw EXCEPT !.timer = IF tw.f = "nil" THEN "crashed" ELSE "fired"],
          fired |-> TRUE, invoke |-> tw.f # "nil"]
    ELSE [tw |-> tw, fired |-> FALSE, invoke |-> FALSE]

(***************************************************************************)
(* The contract's state machine, kept beside the code's state: it moves on *)
(* the events alone (a fire event or a Stop() call on an Active timer).    *)
(***************************************************************************)
PhaseAfterFire(p) == IF p = "Active" THEN "Fired" ELSE p
PhaseAfterStop(p) == IF p = "Active" THEN "Stopped" ELSE p

TimerInit ==
    /\ timers = [t \in TimerIds |-> NoTimer]
    /\ hostTimeouts = {}
    /\ released = [t \in TimerIds |-> 0]
    /\ calls = [t \in TimerIds |-> 0]
    /\ stopLog = [t \in TimerIds |-> <<>>]
    /\ deadCalls = [t \in TimerIds |-> 0]
    /\ fires = [t \in TimerIds |-> 0]
    /\ fired = [t \in TimerIds |-> 0]
    /\ phase = [t \in TimerIds |-> "None"]

NoEvent == [ev |-> "none", f |-> "nil"]

PairInit == pendingEv = NoEvent /\ pairTrace = <<>>

RaceInit ==
    /\ stack = <<>>
    /\ due = {}
    /\ spawned = {}
    /\ raced = {}

\* The engines of the host's Date parser; the native build has none.
JsEngines == {"rollover", "strict"}

\* The reading of the wall clock at start-up: 2024-01-15T22:10:00Z.
ClockStart == Instant(19737, 79800, 0)

NothingSeen == [past |-> FALSE, notFuture |-> FALSE]

\* No offset saved; reg is the register at the moment of saving.
NothingSaved == [has |-> FALSE, hours |-> 0, reg |-> 0]

\* No IsToday call in progress.
IdleToday ==
    [pc |-> "idle", nano |-> Instant(0, 0, 0), now |-> Instant(0, 0, 0),
     tOffset |-> 0, nowOffset |-> 0, val |-> FALSE]

EnvInit ==
    /\ provider \in Providers
    /\ jsEngine \in (IF provider = "timeClient" THEN JsEngines ELSE {"none"})
    /\ hostZone \in HostZones
    /\ clock = ClockStart
    /\ seen = NothingSeen
    /\ today = IdleToday
    /\ saved = NothingSaved

\* The whole minutes east of UTC of a zone at an instant: natively
\* int32(offset / 60) of the seconds of time.Now().Zone(); on the host the
\* minutes of getTimezoneOffset(), cut to an int and negated.
ZoneMinutes(zone, at) == Quot(ZoneOffsetAt(zone, at), 60)

\* detectOffset: the host zone's offset from UTC now, in minutes.
detectOffset == ZoneMinutes(hostZone, clock)

\* The register values start-up detection may store (minutes east of UTC).
StartupOffsets == {ZoneMinutes(zone, ClockStart) : zone \in HostZones}

NoSet == [set |-> FALSE, hours |-> 0, over |-> FALSE]

NoCall ==
    [op |-> "none", arg |-> PlainInt(0), a |-> "", b |-> "", out |-> "",
     val |-> 0, err |-> "", set |-> FALSE, h |-> 0, reg |-> 0, again |-> FALSE]

\* init() runs detectOffset() once, before any call of the API.
TzInit ==
    /\ tzOffsetMinutes = detectOffset
    /\ lastSet = NoSet
    /\ lastCall = NoCall

Threads == 1..MaxThreads

IdleThread == [pc |-> "idle", hours |-> 0, minutes |-> 0]

SetInit ==
    /\ threads = [th \in Threads |-> IdleThread]
    /\ calledHours = {}
    /\ storeOrder = <<>>

\* An argument: the operation it is for, its texts and numbers, and the
\* class of arguments it was drawn from.
Input(fn, kind, a, b, n, m) == [fn |-> fn, kind |-> kind, a |-> a, b |-> b, n |-> n, m |-> m]

NoInput == Input("none", "", "", "", 0, 0)

\* The state after start-up, the caller holding one of the arguments args.
InitWith(args) ==
    /\ EnvInit
    /\ input \in args
    /\ TzInit
    /\ SetInit
    /\ TimerInit
    /\ PairInit
    /\ RaceInit

Init ==
    /\ EnvInit
    /\ input = NoInput
    /\ TzInit
    /\ SetInit
    /\ TimerInit
    /\ PairInit
    /\ RaceInit

\* The next unused timer number.
IsNextFree(t) ==
    /\ timers[t] = NoTimer
    /\ \A u \in TimerIds : u < t => timers[u] # NoTimer

\* timeClient.AfterFunc(ms, f): build the timer, wrap the fire path in a
\* js.Func and register it with the host's setTimeout.
ClientAfterFunc(t, f) ==
    /\ timers' = [timers EXCEPT ![t] = NewWasmTimer(t, f)]
    /\ hostTimeouts' = hostTimeouts \cup {t}
    /\ phase' = [phase EXCEPT ![t] = "Active"]
    /\ UNCHANGED <<released, calls, stopLog, deadCalls, fires, fired>>

\* timeServer.AfterFunc(ms, f): time.AfterFunc and the wrapper around it.
ServerAfterFunc(t, f) ==
    /\ timers' = [timers EXCEPT ![t] = NewTimerWrapper(f)]
    /\ phase' = [phase EXCEPT ![t] = "Active"]
    /\ UNCHANGED <<hostTimeouts, released, calls, stopLog, deadCalls, fires, fired>>

AfterFunc(t, f) ==
    /\ IsNextFree(t)
    /\ IF provider = "timeClient" THEN ClientAfterFunc(t, f) ELSE ServerAfterFunc(t, f)
    /\ UNCHANGED <<envVars, tzVars, setVars, pairVars, raceVars>>

\* Stop() on a WasmTimer.
ClientStop(t) ==
    LET r == WasmTimer_Stop(timers[t]) IN
    /\ timers' = [timers EXCEPT ![t] = r.wt]
    /\ hostTimeouts' = IF r.clear THEN hostTimeouts \ {timers[t].id} ELSE hostTimeouts
    /\ released' = [released EXCEPT ![t] = IF r.release THEN @ + 1 ELSE @]
    /\ stopLog' = [stopLog EXCEPT ![t] = Append(@, r.ret)]
    /\ phase' = [phase EXCEPT ![t] = PhaseAfterStop(@)]
    /\ UNCHANGED <<calls, deadCalls, fires, fired>>

\* Stop() on a timerWrapper.
ServerStop(t) ==
    LET r == TimerWrapper_Stop(timers[t]) IN
    /\ timers' = [timers EXCEPT ![t] = r.tw]
    /\ stopLog' = [stopLog EXCEPT ![t] = Append(@, r.ret)]
    /\ phase' = [phase EXCEPT ![t] = PhaseAfterStop(@)]
    /\ UNCHANGED <<hostTimeouts, released, calls, deadCalls, fires, fired>>

Stop(t) ==
    /\ timers[t] # NoTimer
    /\ Len(stopLog[t]) < MaxStops
    /\ IF timers[t].kind = "WasmTimer" THEN ClientStop(t) ELSE ServerStop(t)
    /\ UNCHANGED <<envVars, tzVars, setVars, pairVars, raceVars>>

\* The fire path of a WasmTimer, entered from the wrapper or from FireTimer.
ClientFire(t) ==
    LET r == WasmTimer_Fire(timers[t]) IN
    /\ timers' = [timers EXCEPT ![t] = r.wt]
    /\ released' = [released EXCEPT ![t] = IF r.release THEN @ + 1 ELSE @]
    /\ calls' = [calls EXCEPT ![t] = IF r.invoke THEN @ + 1 ELSE @]
    /\ fired' = [fired EXCEPT ![t] = IF r.fired THEN @ + 1 ELSE @]
    /\ phase' = [phase EXCEPT ![t] = PhaseAfterFire(@)]

\* The delay of a WasmTimer elapses: the host takes the pending timeout out of
\* its table and calls the wrapper.  A released wrapper no longer reaches Go
\* code (the bridge reports "call to released function").
HostDelivers(t) ==
    /\ t \in hostTimeouts
    /\ hostTimeouts' = hostTimeouts \ {t}
    /\ IF released[t] > 0
       THEN /\ deadCalls' = [deadCalls EXCEPT ![t] = @ + 1]
            /\ UNCHANGED <<timers, released, calls, fired, phase>>
       ELSE /\ ClientFire(t)
            /\ UNCHANGED deadCalls
    /\ UNCHANGED <<stopLog, fires>>

\* The delay of a native timer elapses: the runtime takes the timer out of
\* its pending state and starts a goroutine for f ("go f()"); f itself runs
\* later, in GoroutineRuns.
RuntimeExpires(t) ==
    LET r == TimerWrapper_Expire(timers[t]) IN
    /\ timers[t].timer = "pending"
    /\ timers' = [timers EXCEPT ![t] = r.tw]
    /\ spawned' = IF r.invoke THEN spawned \cup {t} ELSE spawned
    /\ fired' = [fired EXCEPT ![t] = IF r.fired THEN @ + 1 ELSE @]
    /\ phase' = [phase EXCEPT ![t] = PhaseAfterFire(@)]
    /\ UNCHANGED <<hostTimeouts, released, calls, stopLog, deadCalls, fires>>

\* The goroutine started by the runtime executes f.
GoroutineRuns(t) ==
    /\ t \in spawned
    /\ spawned' = spawned \ {t}
    /\ calls' = [calls EXCEPT ![t] = @ + 1]
    /\ UNCHANGED <<timers, hostTimeouts, released, stopLog, deadCalls, fires, fired, phase>>
    /\ UNCHANGED <<envVars, tzVars, setVars, pairVars, stack, due, raced>>

DelayElapses(t) ==
    /\ timers[t] # NoTimer
    /\ IF timers[t].kind = "WasmTimer" THEN HostDelivers(t) /\ UNCHANGED spawned
       ELSE RuntimeExpires(t)
    /\ UNCHANGED <<envVars, tzVars, setVars, pairVars, stack, due, raced>>

\* FireTimer(t) of the bridged backend's test support: the fire path, forced.
FireTimer(t) ==
    /\ timers[t] # NoTimer
    /\ timers[t].kind = "WasmTimer"
    /\ fires[t] < MaxFires
    /\ fires' = [fires EXCEPT ![t] = @ + 1]
    /\ ClientFire(t)
    /\ UNCHANGED <<hostTimeouts, stopLog, deadCalls>>
    /\ UNCHANGED <<envVars, tzVars, setVars, pairVars, raceVars>>

Next ==
    \/ \E t \in TimerIds, f \in Callbacks : AfterFunc(t, f)
    \/ \E t \in TimerIds : Stop(t)
    \/ \E t \in TimerIds : DelayElapses(t)
    \/ \E t \in TimerIds : FireTimer(t)
    \/ \E t \in TimerIds : GoroutineRuns(t)

Spec == Init /\ [][Next]_vars

(***************************************************************************)
(* Properties of the timer contract.                                       *)
(***************************************************************************)

\* The code's own notion of a timer that can still fire or be stopped.
CodeActive(t) ==
    /\ timers[t] # NoTimer
    /\ IF timers[t].kind = "WasmTimer" THEN timers[t].active
       ELSE timers[t].timer = "pending"

\* The number of Stop() calls of timer t that returned true.
TrueStops(t) == Cardinality({i \in 1..Len(stopLog[t]) : stopLog[t][i]})

\* C1: a Stop() call returns true exactly when the timer was Active at the
\* call, and then the timer has left Active; every other Stop() returns
\* false and changes nothing but the record of its own return value.  The
\* first Stop() right after AfterFunc returns true and a second one false.
C1_StopReturnsTrueIffActive ==
    [][\A t \in TimerIds :
          Len(stopLog'[t]) = Len(stopLog[t]) + 1 =>
             LET ret == stopLog'[t][Len(stopLog'[t])] IN
             /\ ret = (phase[t] = "Active")
             /\ ret => (CodeActive(t) /\ ~CodeActive(t)' /\ phase'[t] = "Stopped")
             /\ ~ret => UNCHANGED <<timers, hostTimeouts, released, calls,
                                     deadCalls, fires, fired, phase>>
             /\ (fired[t] = 0 /\ stopLog[t] = <<>>) => ret
             /\ stopLog[t] # <<>> => ~ret]_vars

\* C1 witness: a timer was stopped right after AfterFunc (true) and then
\* stopped again (false).
C1_Witness == \E t \in TimerIds : stopLog[t] = <<TRUE, FALSE>>

\* C2: the callback of a timer is invoked at most once, never when a Stop()
\* of that timer has returned true, and the timer leaves Active at most once:
\* by firing or by a Stop() that returns true, never by both.
C2_FireAndStopExclusive ==
    \A t \in TimerIds :
        /\ calls[t] <= 1
        /\ TrueStops(t) > 0 => calls[t] = 0
        /\ fired[t] + TrueStops(t) <= 1
        /\ calls[t] <= fired[t]

\* C2 witness: a timer was stopped successfully and a fire event (a forced
\* fire) came afterwards, without effect.
C2_Witness ==
    \E t \in TimerIds :
        /\ TrueStops(t) = 1 /\ fires[t] > 0 /\ calls[t] = 0
        /\ timers[t].f = "fn"

\* C3: in the host-event-loop realization the callback wrapper is released
\* exactly once, by the first of {fire, Stop()}: it is unreleased while the
\* timer is Active and released once, never twice, afterwards; further
\* fires and stops after a forced fire neither invoke the callback again nor
\* release again.
C3_WrapperReleasedOnce ==
    \A t \in TimerIds :
        (timers[t] # NoTimer /\ timers[t].kind = "WasmTimer") =>
            /\ released[t] = (IF phase[t] \in {"Fired", "Stopped"} THEN 1 ELSE 0)
            /\ released[t] = fired[t] + TrueStops(t)
            /\ (fires[t] > 0 /\ timers[t].f = "fn") => calls[t] = 1 - TrueStops(t)

\* C3 witness: a forced fire, then a second forced fire, a Stop() and the
\* host's own delivery, with one release and one invocation.
C3_Witness ==
    \E t \in TimerIds :
        /\ timers[t] # NoTimer /\ timers[t].kind = "WasmTimer"
        /\ fires[t] = 2 /\ stopLog[t] = <<FALSE>> /\ t \notin hostTimeouts
        /\ released[t] = 1 /\ calls[t] = 1

(***************************************************************************)
(* The stepwise run: Stop() and the fire path statement by statement, with *)
(* the delay elapsing at any moment.  The bridged backend runs on the      *)
(* host's single event loop: the host calls the wrapper only when no Go    *)
(* call is in progress.  The native backend expires timers and runs        *)
(* callbacks on threads of their own; the runtime's Stop and expiry are    *)
(* each one atomic step.                                                   *)
(***************************************************************************)

\* Mutant of FireProceeds: the fire path does not look at wt.active.
FireProceeds_Always(wt) == TRUE

\* WasmTimer.Fire, its guard: if !wt.active { return }.
FireProceeds(wt) == wt.active

\* Mutant of StopProceeds: Stop() does not look at wt.active.
StopProceeds_Always(wt) == TRUE

\* WasmTimer.Stop, its guard: if !wt.active { return false }.
StopProceeds(wt) == wt.active

\* A frame of a call in progress; ret is the value a Stop() is bound to return.
Frame(op, t, pc) == [op |-> op, t |-> t, pc |-> pc, ret |-> FALSE]

Top == stack[Len(stack)]

Pop == SubSeq(stack, 1, Len(stack) - 1)

\* The stack with the innermost frame replaced.
SetTop(fr) == [stack EXCEPT ![Len(stack)] = fr]

TopIs(op, pc) == stack # <<>> /\ Top.op = op /\ Top.pc = pc

\* Go code may call into timer t: from the top level, or (bridged backend)
\* from the body of t's own callback.
MayCall(t) ==
    \/ stack = <<>>
    \/ /\ timers[t].kind = "WasmTimer"
       /\ TopIs("Fire", "callback") /\ Top.t = t

\* The Stop() calls of timer t that are in progress.
StopFrames(t) == {i \in 1..Len(stack) : stack[i].op = "Stop" /\ stack[i].t = t}

\* The stepwise run follows one timer.
RaceTimers == {1}

RAfterFunc(t, f) ==
    /\ stack = <<>>
    /\ IsNextFree(t)
    /\ IF provider = "timeClient" THEN ClientAfterFunc(t, f) ELSE ServerAfterFunc(t, f)
    /\ UNCHANGED <<envVars, tzVars, setVars, pairVars, raceVars>>

\* The delay of a scheduled timer elapses; nothing has run yet.
RDelayElapses(t) ==
    /\ timers[t] # NoTimer
    /\ t \notin due
    /\ IF timers[t].kind = "WasmTimer" THEN t \in hostTimeouts
       ELSE timers[t].timer = "pending"
    /\ due' = due \cup {t}
    /\ raced' = IF StopFrames(t) # {} THEN raced \cup {t} ELSE raced
    /\ UNCHANGED <<envVars, tzVars, setVars, timerVars, pairVars, stack, spawned>>

\* A call of Stop() begins.
RStopCall(t) ==
    /\ timers[t] # NoTimer
    /\ MayCall(t)
    /\ Len(stopLog[t]) + Cardinality(StopFrames(t)) < MaxStops
    /\ stack' = Append(stack, Frame("Stop", t,
                  IF timers[t].kind = "WasmTimer" THEN "check" ELSE "timerStop"))
    /\ UNCHANGED <<envVars, tzVars, setVars, timerVars, pairVars, due, spawned, raced>>

\* A call of FireTimer begins (bridged backend).
RFireTimerCall(t) ==
    /\ timers[t] # NoTimer
    /\ timers[t].kind = "WasmTimer"
    /\ MayCall(t)
    /\ fires[t] < MaxFires
    /\ fires' = [fires EXCEPT ![t] = @ + 1]
    /\ stack' = Append(stack, Frame("Fire", t, "check"))
    /\ UNCHANGED <<timers, hostTimeouts, released, calls, stopLog, deadCalls, fired, phase>>
    /\ UNCHANGED <<envVars, tzVars, setVars, pairVars, due, spawned, raced>>

\* The host's event loop runs a due timeout: it calls the wrapper, which
\* calls wt.Fire() unless it has been released.
RHostCalls(t) ==
    /\ stack = <<>>
    /\ t \in due /\ t \in hostTimeouts
    /\ hostTimeouts' = hostTimeouts \ {t}
    /\ due' = due \ {t}
    /\ IF released[t] > 0
       THEN /\ deadCalls' = [deadCalls EXCEPT ![t] = @ + 1]
            /\ UNCHANGED stack
       ELSE /\ stack' = Append(stack, Frame("Fire", t, "check"))
            /\ UNCHANGED deadCalls
    /\ UNCHANGED <<timers, released, calls, stopLog, fires, fired, phase>>
    /\ UNCHANGED <<envVars, tzVars, setVars, pairVars, spawned, raced>>

\* WasmTimer.Stop: if !wt.active { return false }.
RStopCheck ==
    /\ TopIs("Stop", "check")
    /\ stack' = SetTop(IF StopProceeds(timers[Top.t])
                       THEN [Top EXCEPT !.pc = "clear", !.ret = TRUE]
                       ELSE [Top EXCEPT !.pc = "return", !.ret = FALSE])
    /\ UNCHANGED <<envVars, tzVars, setVars, timerVars, pairVars, due, spawned, raced>>

\* WasmTimer.Stop: clearTimeout(wt.id).
RStopClear ==
    /\ TopIs("Stop", "clear")
    /\ hostTimeouts' = hostTimeouts \ {timers[Top.t].id}
    /\ due' = due \ {timers[Top.t].id}
    /\ stack' = SetTop([Top EXCEPT !.pc = "set"])
    /\ UNCHANGED <<timers, released, calls, stopLog, deadCalls, fires, fired, phase>>
    /\ UNCHANGED <<envVars, tzVars, setVars, pairVars, spawned, raced>>

\* WasmTimer.Stop: wt.active = false.
RStopSet ==
    /\ TopIs("Stop", "set")
    /\ timers' = [timers EXCEPT ![Top.t].active = FALSE]
    /\ phase' = [phase EXCEPT ![Top.t] = PhaseAfterStop(@)]
    /\ stack' = SetTop([Top EXCEPT !.pc = "release"])
    /\ UNCHANGED <<hostTimeouts, released, calls, stopLog, deadCalls, fires, fired>>
    /\ UNCHANGED <<envVars, tzVars, setVars, pairVars, due, spawned, raced>>

\* WasmTimer.Stop: wt.jsFunc.Release().
RStopRelease ==
    /\ TopIs("Stop", "release")
    /\ released' = [released EXCEPT ![Top.t] = @ + 1]
    /\ stack' = SetTop([Top EXCEPT !.pc = "return"])
    /\ UNCHANGED <<timers, hostTimeouts, calls, stopLog, deadCalls, fires, fired, phase>>
    /\ UNCHANGED <<envVars, tzVars, setVars, pairVars, due, spawned, raced>>

\* timerWrapper.Stop: tw.timer.Stop(), one step of the runtime.
RStopRuntime ==
    /\ TopIs("Stop", "timerStop")
    /\ LET r == TimerWrapper_Stop(timers[Top.t]) IN
       /\ timers' = [timers EXCEPT ![Top.t] = r.tw]
       /\ stack' = SetTop([Top EXCEPT !.pc = "return", !.ret = r.ret])
    /\ phase' = [phase EXCEPT ![Top.t] = PhaseAfterStop(@)]
    /\ due' = due \ {Top.t}
    /\ UNCHANGED <<hostTimeouts, released, calls, stopLog, deadCalls, fires, fired>>
    /\ UNCHANGED <<envVars, tzVars, setVars, pairVars, spawned, raced>>

\* Stop() returns to its caller.
RStopReturn ==
    /\ TopIs("Stop", "return")
    /\ stopLog' = [stopLog EXCEPT ![Top.t] = Append(@, Top.ret)]
    /\ stack' = Pop
    /\ UNCHANGED <<timers, hostTimeouts, released, calls, deadCalls, fires, fired, phase>>
    /\ UNCHANGED <<envVars, tzVars, setVars, pairVars, due, spawned, raced>>

\* WasmTimer.Fire: if !wt.active { return }.
RFireCheck ==
    /\ TopIs("Fire", "check")
    /\ stack' = IF FireProceeds(timers[Top.t]) THEN SetTop([Top EXCEPT !.pc = "set"])
                ELSE Pop
    /\ UNCHANGED <<envVars, tzVars, setVars, timerVars, pairVars, due, spawned, raced>>

\* WasmTimer.Fire: wt.active = false.
RFireSet ==
    /\ TopIs("Fire", "set")
    /\ timers' = [timers EXCEPT ![Top.t].active = FALSE]
    /\ fired' = [fired EXCEPT ![Top.t] = @ + 1]
    /\ phase' = [phase EXCEPT ![Top.t] = PhaseAfterFire(@)]
    /\ stack' = SetTop([Top EXCEPT !.pc = "release"])
    /\ UNCHANGED <<hostTimeouts, released, calls, stopLog, deadCalls, fires>>
    /\ UNCHANGED <<envVars, tzVars, setVars, pairVars, due, spawned, raced>>

\* WasmTimer.Fire: wt.jsFunc.Release().
RFireRelease ==
    /\ TopIs("Fire", "release")
    /\ released' = [released EXCEPT ![Top.t] = @ + 1]
    /\ stack' = SetTop([Top EXCEPT !.pc = "invoke"])
    /\ UNCHANGED <<timers, hostTimeouts, calls, stopLog, deadCalls, fires, fired, phase>>
    /\ UNCHANGED <<envVars, tzVars, setVars, pairVars, due, spawned, raced>>

\* WasmTimer.Fire: if wt.f != nil { wt.f() }, entering the callback.
RFireInvoke ==
    /\ TopIs("Fire", "invoke")
    /\ IF timers[Top.t].f # "nil"
       THEN /\ calls' = [calls EXCEPT ![Top.t] = @ + 1]
            /\ stack' = SetTop([Top EXCEPT !.pc = "callback"])
       ELSE /\ stack' = Pop
            /\ UNCHANGED calls
    /\ UNCHANGED <<timers, hostTimeouts, released, stopLog, deadCalls, fires, fired, phase>>
    /\ UNCHANGED <<envVars, tzVars, setVars, pairVars, due, spawned, raced>>

\* The callback returns, and Fire with it.
RFireReturn ==
    /\ TopIs("Fire", "callback")
    /\ stack' = Pop
    /\ UNCHANGED <<envVars, tzVars, setVars, timerVars, pairVars, due, spawned, raced>>

\* The runtime runs a due native timer: go f().
RRuntimeRuns(t) ==
    /\ timers[t] # NoTimer
    /\ timers[t].kind = "timerWrapper"
    /\ t \in due
    /\ LET r == TimerWrapper_Expire(timers[t]) IN
       /\ timers' = [timers EXCEPT ![t] = r.tw]
       /\ fired' = [fired EXCEPT ![t] = IF r.fired THEN @ + 1 ELSE @]
       /\ spawned' = IF r.invoke THEN spawned \cup {t} ELSE spawned
    /\ phase' = [phase EXCEPT ![t] = PhaseAfterFire(@)]
    /\ due' = due \ {t}
    /\ UNCHANGED <<hostTimeouts, released, calls, stopLog, deadCalls, fires>>
    /\ UNCHANGED <<envVars, tzVars, setVars, pairVars, stack, raced>>

\* The goroutine started by the runtime executes f.
RGoroutineRuns(t) == GoroutineRuns(t)

RaceNext ==
    \/ \E t \in RaceTimers, f \in Callbacks : RAfterFunc(t, f)
    \/ \E t \in RaceTimers : RDelayElapses(t)
    \/ \E t \in RaceTimers : RStopCall(t)
    \/ \E t \in RaceTimers : RFireTimerCall(t)
    \/ \E t \in RaceTimers : RHostCalls(t)
    \/ RStopCheck
    \/ RStopClear
    \/ RStopSet
    \/ RStopRelease
    \/ RStopRuntime
    \/ RStopReturn
    \/ RFireCheck
    \/ RFireSet
    \/ RFireRelease
    \/ RFireInvoke
    \/ RFireReturn
    \/ \E t \in RaceTimers : RRuntimeRuns(t)
    \/ \E t \in RaceTimers : RGoroutineRuns(t)

SpecRace == Init /\ [][RaceNext]_vars

\* The Stop() calls of timer t that have returned true or are bound to.
StopsWon(t) ==
    TrueStops(t) + Cardinality({i \in StopFrames(t) : stack[i].ret = TRUE})

\* C4: in every interleaving of the steps of Stop() with the delay elapsing
\* and the steps of the fire path, a timer leaves Active at most once: a
\* Stop() that returns true excludes the fire path and the callback, at most
\* one Stop() returns true, and the callback runs at most once.
C4_TransitionTakenOnceUnderRace ==
    \A t \in TimerIds :
        /\ fired[t] + StopsWon(t) <= 1
        /\ StopsWon(t) > 0 => (calls[t] = 0 /\ t \notin spawned)
        /\ calls[t] + (IF t \in spawned THEN 1 ELSE 0) <= fired[t]
        /\ released[t] <= 1

\* C4 witness: the delay elapsed while a Stop() that found the timer active
\* was still in progress, and that Stop() has returned true.
C4_Witness ==
    \E t \in TimerIds :
        /\ stopLog[t] # <<>> /\ stopLog[t][1] = TRUE
        /\ fired[t] = 0
        /\ t \in raced

(***************************************************************************)
(* The paired run: one native timer and one bridged timer are given the    *)
(* same events (AfterFunc, the delay elapsing, Stop()), the native one     *)
(* first, the bridged one following.  When the firing of the native timer  *)
(* ends the native program (fatal error: go of nil func value) the bridged *)
(* timer still takes the event that did so, and the run is over: the       *)
(* native program takes no further event.                                  *)
(***************************************************************************)
PairNative == 1
PairWasm == 2

PairIdle == pendingEv = NoEvent

\* The firing of timer t ended the program.
Crashed(t) == timers[t].kind = "timerWrapper" /\ timers[t].timer = "crashed"

\* The next event of the paired run is given to the native timer, whose
\* program is still running.
PairGives(e) ==
    /\ PairIdle
    /\ ~Crashed(PairNative)
    /\ Len(pairTrace) < MaxPairEvents
    /\ pendingEv' = e
    /\ pairTrace' = Append(pairTrace, e.ev)

\* The bridged timer has taken the pending event.
PairTaken ==
    /\ pendingEv' = NoEvent
    /\ UNCHANGED pairTrace

PairAfterFunc(f) ==
    /\ timers[PairNative] = NoTimer
    /\ ServerAfterFunc(PairNative, f)
    /\ PairGives([ev |-> "AfterFunc", f |-> f])
    /\ UNCHANGED <<envVars, tzVars, setVars, raceVars>>

PairFollowsAfterFunc ==
    /\ pendingEv.ev = "AfterFunc"
    /\ ClientAfterFunc(PairWasm, pendingEv.f)
    /\ PairTaken
    /\ UNCHANGED <<envVars, tzVars, setVars, raceVars>>

\* The delay elapses: the runtime expires the native timer if it is pending.
PairElapse ==
    /\ timers[PairNative] # NoTimer
    /\ IF timers[PairNative].timer = "pending" THEN RuntimeExpires(PairNative)
       ELSE UNCHANGED <<timerVars, spawned>>
    /\ PairGives([ev |-> "Elapse", f |-> "nil"])
    /\ UNCHANGED <<envVars, tzVars, setVars, stack, due, raced>>

\* The delay elapses: the host delivers the bridged timer's timeout if it is
\* still in its table.
PairFollowsElapse ==
    /\ pendingEv.ev = "Elapse"
    /\ IF PairWasm \in hostTimeouts THEN HostDelivers(PairWasm)
       ELSE UNCHANGED timerVars
    /\ PairTaken
    /\ UNCHANGED <<envVars, tzVars, setVars, raceVars>>

PairStop ==
    /\ timers[PairNative] # NoTimer
    /\ Len(stopLog[PairNative]) < MaxStops
    /\ ServerStop(PairNative)
    /\ PairGives([ev |-> "Stop", f |-> "nil"])
    /\ UNCHANGED <<envVars, tzVars, setVars, raceVars>>

PairFollowsStop ==
    /\ pendingEv.ev = "Stop"
    /\ ClientStop(PairWasm)
    /\ PairTaken
    /\ UNCHANGED <<envVars, tzVars, setVars, raceVars>>

PairNext ==
    \/ \E f \in Callbacks : PairAfterFunc(f)
    \/ PairFollowsAfterFunc
    \/ PairElapse
    \/ PairFollowsElapse
    \/ PairStop
    \/ PairFollowsStop
    \/ GoroutineRuns(PairNative)

SpecPair == Init /\ [][PairNext]_vars

\* The invocations of the callback of timer t: those run and, natively,
\* the one started in a goroutine that has still to run.
Invocations(t) == calls[t] + (IF t \in spawned THEN 1 ELSE 0)

\* C5: given the same sequence of AfterFunc, delay-elapse and Stop() events,
\* the native timer and the bridged timer show the same behaviour: the
\* native program is still running where the bridged one is, both returned
\* the same values from their Stop() calls and both invoked the callback
\* the same number of times (the native invocation counted from the moment
\* its goroutine is started).
C5_RealizationsIndistinguishable ==
    PairIdle =>
        /\ ~Crashed(PairNative)
        /\ stopLog[PairNative] = stopLog[PairWasm]
        /\ Invocations(PairNative) = Invocations(PairWasm)

\* Up to the firing of a timer without a callback the two timers agree:
\* as long as the native program runs, and in the run of events it was
\* given before it ended, the Stop() calls returned the same values and
\* the callback was invoked the same number of times.
PairAgreesWhileRunning ==
    PairIdle =>
        /\ stopLog[PairNative] = stopLog[PairWasm]
        /\ Invocations(PairNative) = Invocations(PairWasm)
        /\ Crashed(PairNative) =>
              /\ timers[PairWasm].f = "nil" /\ fired[PairWasm] = 1
              /\ calls[PairWasm] = 0 /\ PairWasm \notin hostTimeouts

(***************************************************************************)
(* The run under a fair scheduler: a pending delay eventually elapses (the *)
(* runtime's timer thread and the host's event loop keep running).         *)
(***************************************************************************)
\* The timers the program creates in the fair runs.
FairTimers == {1, 2}

FairNext ==
    \/ \E t \in FairTimers, f \in Callbacks : AfterFunc(t, f)
    \/ \E t \in FairTimers : Stop(t)
    \/ \E t \in FairTimers : DelayElapses(t)
    \/ \E t \in FairTimers : FireTimer(t)
    \/ \E t \in FairTimers : GoroutineRuns(t)

SpecFair ==
    /\ Init /\ [][FairNext]_vars
    /\ \A t \in FairTimers : WF_vars(DelayElapses(t)) /\ WF_vars(GoroutineRuns(t))

(***************************************************************************)
(* The register and the format / parse engine: one action per call of the  *)
(* API, made by one caller at a time.                                      *)
(***************************************************************************)

\* A call recorded with the register and the most recent Set at the call.
Call(op, arg, a, b, out, val, err) ==
    [op |-> op, arg |-> arg, a |-> a, b |-> b, out |-> out, val |-> val, err |-> err,
     set |-> lastSet.set, h |-> lastSet.hours, reg |-> tzOffsetMinutes,
     again |-> /\ lastCall.op = op /\ lastCall.a = a /\ lastCall.b = b
               /\ lastCall.reg # tzOffsetMinutes]

SetTimeZoneOffset(hours) ==
    /\ tzOffsetMinutes' = AtomicStore(tzOffsetMinutes, StoredOffset(hours))
    /\ lastSet' = [set |-> TRUE, hours |-> hours,
                   over |-> lastSet.set /\ tzOffsetMinutes # StoredOffset(hours)]
    /\ UNCHANGED <<lastCall, envVars, setVars, timerVars, pairVars, raceVars>>

\* Mutant of GetTimeZoneOffset: the whole hours are written back.
GetTimeZoneOffset_WritesBack ==
    /\ lastCall' = Call("GetTimeZoneOffset", PlainInt(0), "", "", "",
                        OffsetHours(getOffsetMinutes), "")
    /\ tzOffsetMinutes' = OffsetHours(getOffsetMinutes) * 60
    /\ UNCHANGED <<lastSet, envVars, setVars, timerVars, pairVars, raceVars>>

GetTimeZoneOffset ==
    /\ lastCall' = Call("GetTimeZoneOffset", PlainInt(0), "", "", "",
                        OffsetHours(getOffsetMinutes), "")
    /\ UNCHANGED <<tzOffsetMinutes, lastSet, envVars, setVars, timerVars, pairVars, raceVars>>

Returns(call) ==
    /\ lastCall' = call
    /\ UNCHANGED <<tzOffsetMinutes, lastSet, envVars, setVars, timerVars, pairVars, raceVars>>

DoFormatDate(value) ==
    Returns(Call("FormatDate", value, "", "",
                 FormatDate(provider, value, getOffsetMinutes), 0, ""))

DoFormatTime(value) ==
    Returns(Call("FormatTime", value, "", "",
                 FormatTime(provider, value, getOffsetMinutes), 0, ""))

DoFormatDateTime(value) ==
    Returns(Call("FormatDateTime", value, "", "",
                 FormatDateTime(provider, value, getOffsetMinutes), 0, ""))

DoFormatDateTimeShort(value) ==
    Returns(Call("FormatDateTimeShort", value, "", "",
                 FormatDateTimeShort(provider, value, getOffsetMinutes), 0, ""))

\* A Parse call returns the value and the error r.
ReturnsParsed(op, a, b, r) == Returns(Call(op, PlainInt(0), a, b, "", r.val, r.err))

DoParseDate(dateStr) ==
    ReturnsParsed("ParseDate", dateStr, "", ParseDate(provider, jsEngine, hostZone, dateStr))

DoParseTime(timeStr) ==
    ReturnsParsed("ParseTime", timeStr, "", ParseTime(provider, timeStr))

DoParseDateTime(dateStr, timeStr) ==
    ReturnsParsed("ParseDateTime", dateStr, timeStr,
                  ParseDateTime(provider, jsEngine, hostZone, dateStr, timeStr))

\* The date and time texts ParseDateTime is given: every time text beside
\* the date 2024-01-15, every date text beside the time 08:30, and a date
\* with a parenthesis opened in it beside an hour alone.
DateTimeTexts ==
    {texts \in DateTexts \X TimeTexts : texts[1] = "2024-01-15" \/ texts[2] = "08:30"}
       \cup {<<"2024(01-15", "08">>}

TzNext ==
    \/ \E hours \in Hours : SetTimeZoneOffset(hours)
    \/ GetTimeZoneOffset
    \/ \E value \in FormatValues : DoFormatDate(value)
    \/ \E value \in FormatValues : DoFormatTime(value)
    \/ \E value \in FormatValues : DoFormatDateTime(value)
    \/ \E value \in FormatValues : DoFormatDateTimeShort(value)
    \/ \E dateStr \in DateTexts : DoParseDate(dateStr)
    \/ \E timeStr \in TimeTexts : DoParseTime(timeStr)
    \/ \E texts \in DateTimeTexts : DoParseDateTime(texts[1], texts[2])

SpecTz == Init /\ [][TzNext]_vars

\* C7: a Format call on an instant i made after a SetTimeZoneOffset(h) returns
\* what the same operation returns at offset 0 for the instant i shifted by
\* h hours, whatever was set before; for 2021-01-01T00:00:00Z FormatTime
\* gives 00:00:00 at 0, 21:00:00 at -3 and 01:00:00 at +1.
C7_FormatIsFlatShift ==
    /\ (lastCall.op \in FormatOps /\ lastCall.arg.type = "int64" /\ lastCall.set)
          => lastCall.out =
                FormatBy(lastCall.op, provider,
                         I64At(Norm(lastCall.arg.at.day,
                                    lastCall.arg.at.sec + lastCall.h * 3600,
                                    lastCall.arg.at.ns)), 0)
    /\ (lastCall.op = "FormatTime" /\ lastCall.arg = I64(1609459200) /\ lastCall.set)
          => /\ lastCall.h = 0 => lastCall.out = "00:00:00"
             /\ lastCall.h = -3 => lastCall.out = "21:00:00"
             /\ lastCall.h = 1 => lastCall.out = "01:00:00"

\* C8: SetTimeZoneOffset(h) leaves h*60 in the register, whatever it held,
\* and a GetTimeZoneOffset() that follows it returns h.
C8_SetStoresMinutesGetReturnsHours ==
    /\ lastSet.set => tzOffsetMinutes = lastSet.hours * 60
    /\ (lastCall.op = "GetTimeZoneOffset" /\ lastCall.set) => lastCall.val = lastCall.h

C8_Witness ==
    /\ lastCall.op = "GetTimeZoneOffset"
    /\ lastCall.set /\ lastCall.h = -3 /\ lastCall.val = -3
    /\ lastSet.hours = -3 /\ lastSet.over
    /\ tzOffsetMinutes = -180

\* C10: a Parse call repeated with the same texts returns the same value and
\* error, whatever the register holds at either call, and the texts are
\* always read as UTC: every ParseDate and ParseDateTime call returns what
\* the same call returns on a host whose zone is UTC, and a date is read as
\* midnight UTC.
C10_ParseIgnoresRegister ==
    /\ [][(/\ lastCall'.op \in ParseOps
           /\ lastCall.op = lastCall'.op
           /\ lastCall.a = lastCall'.a
           /\ lastCall.b = lastCall'.b)
             => (lastCall'.val = lastCall.val /\ lastCall'.err = lastCall.err)]_vars
    /\ [](lastCall.op = "ParseDate"
             => LET utc == ParseDate(provider, jsEngine, "UTC", lastCall.a)
                IN lastCall.val = utc.val /\ lastCall.err = utc.err)
    /\ [](lastCall.op = "ParseDateTime"
             => LET utc == ParseDateTime(provider, jsEngine, "UTC", lastCall.a, lastCall.b)
                IN lastCall.val = utc.val /\ lastCall.err = utc.err)
    /\ [](lastCall.op = "ParseDate" /\ lastCall.a = "2024-01-15"
             => lastCall.val = AtSeconds(1705276800) /\ lastCall.err = "")
    /\ [](lastCall.op = "ParseDateTime" /\ lastCall.a = "2024-01-15" /\ lastCall.b = "08:30"
             => lastCall.val = AtSeconds(1705307400) /\ lastCall.err = "")
    /\ [](lastCall.op = "ParseTime" /\ lastCall.a = "08:30"
             => lastCall.val = 510 /\ lastCall.err = "")

(***************************************************************************)
(* SetTimeZoneOffset called from several threads: each call computes       *)
(* int32(hours * 60), stores it with one atomic store, and returns.  In    *)
(* the single-threaded bridged build a call runs to its end before the     *)
(* next one begins.                                                        *)
(***************************************************************************)
InSet == {th \in Threads : threads[th].pc # "idle"}

SetCalls(th, hours) ==
    /\ threads[th].pc = "idle"
    /\ provider = "timeClient" => InSet = {}
    /\ Len(storeOrder) + Cardinality(InSet) < MaxSetCalls
    /\ threads' = [threads EXCEPT ![th] =
                      [pc |-> "store", hours |-> hours, minutes |-> StoredOffset(hours)]]
    /\ calledHours' = calledHours \cup {hours}
    /\ UNCHANGED <<storeOrder, tzVars, envVars, timerVars, pairVars, raceVars>>

SetStores(th) ==
    /\ threads[th].pc = "store"
    /\ tzOffsetMinutes' = AtomicStore(tzOffsetMinutes, threads[th].minutes)
    /\ lastSet' = [set |-> TRUE, hours |-> threads[th].hours,
                   over |-> lastSet.set /\ tzOffsetMinutes # threads[th].minutes]
    /\ storeOrder' = Append(storeOrder, threads[th].hours)
    /\ threads' = [threads EXCEPT ![th].pc = "done"]
    /\ UNCHANGED <<lastCall, calledHours, envVars, timerVars, pairVars, raceVars>>

SetReturns(th) ==
    /\ threads[th].pc = "done"
    /\ threads' = [threads EXCEPT ![th].pc = "idle"]
    /\ UNCHANGED <<calledHours, storeOrder, tzVars, envVars, timerVars, pairVars, raceVars>>

SetRaceNext ==
    \/ \E th \in Threads, hours \in Hours : SetCalls(th, hours)
    \/ \E th \in Threads : SetStores(th)
    \/ \E th \in Threads : SetReturns(th)

SpecSetRace == Init /\ [][SetRaceNext]_vars

\* C9: with concurrent SetTimeZoneOffset calls the register always holds the
\* start-up value or hours*60 of a call already made, namely of the call
\* whose store came last so far, and so of the last store once all calls
\* have completed.
C9_ConcurrentSetLastWriteWins ==
    /\ tzOffsetMinutes \in StartupOffsets \cup {hours * 60 : hours \in calledHours}
    /\ storeOrder = <<>> => tzOffsetMinutes \in StartupOffsets
    /\ storeOrder # <<>> => tzOffsetMinutes = storeOrder[Len(storeOrder)] * 60

C9_Witness ==
    /\ provider = "timeServer"
    /\ \A th \in Threads : threads[th].pc = "done"
    /\ threads[1].hours = 1 /\ threads[2].hours = -3
    /\ storeOrder[Len(storeOrder)] = 1
    /\ storeOrder[1] = -3
    /\ tzOffsetMinutes = 60

(***************************************************************************)
(* ParseTime and the rendering of minutes since midnight, applied to one   *)
(* argument drawn at the start of the run.                                 *)
(***************************************************************************)

\* The hour and minute numbers of the arguments with seconds, and the parts
\* that are no hour or no minute of the day.
SampleHours == {0, 8, 23}
SampleMinutes == {0, 30, 59}
BadHourParts == {"24", "25", "99", "xx", "-1"}
BadMinuteParts == {"60", "99", "xx", "-1"}
NoColonTexts == {"invalid", "0830", "08.30", ""}

\* The text HH:MM of an hour and a minute.
HHMM(h, m) == Pad(h, 2) \o ":" \o Pad(m, 2)

TimeInputs ==
    {Input("ParseTime", "valid", HHMM(h, m), "", h, m) : h \in 0..23, m \in 0..59}
    \cup {Input("ParseTime", "seconds", HHMM(h, m) \o ":" \o Pad(sec, 2), HHMM(h, m), h, m) :
             h \in SampleHours, m \in SampleMinutes, sec \in 0..59}
    \cup {Input("ParseTime", "bad hour", hp \o ":" \o Pad(m, 2), "", 0, m) :
             hp \in BadHourParts, m \in SampleMinutes}
    \cup {Input("ParseTime", "bad minute", Pad(h, 2) \o ":" \o mp, "", h, 0) :
             h \in SampleHours, mp \in BadMinuteParts}
    \cup {Input("ParseTime", "no colon", x, "", 0, 0) : x \in NoColonTexts}
    \cup {Input("FormatTime", "minutes", "", "", mins, 0) : mins \in 0..1439}

\* The caller parses the text it was given.
CallsParseTime ==
    /\ input.fn = "ParseTime"
    /\ lastCall = NoCall
    /\ DoParseTime(input.a)

\* The caller renders the minutes it was given.
CallsFormatMinutes ==
    /\ input.fn = "FormatTime"
    /\ lastCall = NoCall
    /\ DoFormatTime(I16(input.n))

\* The caller parses the text the rendering returned.
CallsParseOfFormatted ==
    /\ lastCall.op = "FormatTime"
    /\ DoParseTime(lastCall.out)

\* The caller renders the minutes the parse returned.
CallsFormatOfParsed ==
    /\ lastCall.op = "ParseTime" /\ lastCall.err = ""
    /\ DoFormatTime(I16(lastCall.val))

ParseTimeNext ==
    \/ CallsParseTime
    \/ CallsFormatMinutes
    \/ CallsParseOfFormatted
    \/ CallsFormatOfParsed

SpecParseTime == InitWith(TimeInputs) /\ [][ParseTimeNext]_vars

\* The first call of the run, made on the argument itself.
OnInput(op) == lastCall.op = op /\ lastCall.a = input.a /\ input.fn = op

\* C11: ParseTime fails on a text without a colon, on an hour part that is
\* no number or is negative or above 23, and on a minute part that is no
\* number or is negative or above 59; on HH:MM with hour 0..23 and minute
\* 0..59 it returns 60*hour + minute, so every result is in 0..1439.
C11_ParseTimeRanges ==
    /\ (OnInput("ParseTime") /\ input.kind \in {"no colon", "bad hour", "bad minute"})
          => lastCall.err # ""
    /\ (OnInput("ParseTime") /\ input.kind = "valid")
          => (lastCall.err = "" /\ lastCall.val = 60 * input.n + input.m)
    /\ (lastCall.op = "ParseTime" /\ lastCall.err = "") => lastCall.val \in 0..1439
    /\ (OnInput("ParseTime") /\ input.a = "00:00") => (lastCall.err = "" /\ lastCall.val = 0)
    /\ (OnInput("ParseTime") /\ input.a = "23:59") => (lastCall.err = "" /\ lastCall.val = 1439)
    /\ (OnInput("ParseTime") /\ input.a \in {"24:00", "00:60"}) => lastCall.err # ""

C11_Witness ==
    /\ OnInput("ParseTime") /\ input.a = "00:60"
    /\ input.kind = "bad minute"
    /\ lastCall.err = "invalid minutes"

\* C12: ParseTime of HH:MM:SS, for SS in 00..59, returns what ParseTime of
\* the same HH:MM returns: the seconds do not reach the result.
C12_SecondsIgnored ==
    /\ (OnInput("ParseTime") /\ input.kind = "seconds")
          => /\ lastCall.err = ParseTime(provider, input.b).err
             /\ lastCall.val = ParseTime(provider, input.b).val
             /\ lastCall.err = "" /\ lastCall.val = 60 * input.n + input.m
    /\ (OnInput("ParseTime") /\ input.a = "08:30:45") => lastCall.val = 510

C12_Witness ==
    /\ OnInput("ParseTime") /\ input.a = "08:30:45" /\ input.b = "08:30"
    /\ lastCall.err = "" /\ lastCall.val = 510

\* C13: the rendering of m minutes, m in 0..1439, is the five bytes HH:MM
\* with HH = m div 60 and MM = m mod 60, and parsing it gives m back;
\* rendering the result of parsing a zero-padded HH:MM gives the text back.
C13_MinutesRoundTrip ==
    /\ [](lastCall.op = "FormatTime" /\ lastCall.arg.type = "int16"
             => /\ Len(lastCall.out) = 5 /\ At(lastCall.out, 2) = ":"
                /\ AllDigits(Slice(lastCall.out, 0, 2))
                /\ AllDigits(Slice(lastCall.out, 3, 5))
                /\ DigitsVal(Slice(lastCall.out, 0, 2)) = lastCall.arg.n \div 60
                /\ DigitsVal(Slice(lastCall.out, 3, 5)) = lastCall.arg.n % 60)
    /\ [][(lastCall.op = "FormatTime" /\ lastCall'.op = "ParseTime")
             => (lastCall'.err = "" /\ lastCall'.val = lastCall.arg.n)]_vars
    /\ [][(lastCall.op = "ParseTime" /\ input.kind = "valid" /\ lastCall.a = input.a
              /\ lastCall'.op = "FormatTime")
             => lastCall'.out = lastCall.a]_vars

C13_Witness ==
    /\ input.fn = "FormatTime" /\ input.n = 1439
    /\ lastCall.op = "ParseTime" /\ lastCall.a = "23:59"
    /\ lastCall.err = "" /\ lastCall.val = 1439

(***************************************************************************)
(* ParseDate and ParseDateTime on one argument, and the Format call a      *)
(* caller makes on the instant they returned, with the register set        *)
(* between the calls as the caller likes.                                  *)
(***************************************************************************)
SampleYears == {1600, 1677, 1969, 2024, 2200, 2262, 9999}
SampleMonthDays ==
    {<<1, 1>>, <<2, 28>>, <<2, 29>>, <<4, 11>>, <<4, 12>>, <<9, 21>>, <<9, 22>>, <<12, 31>>}
NoSuchMonthDays == {<<2, 30>>, <<2, 31>>, <<4, 31>>, <<13, 1>>, <<0, 10>>, <<1, 32>>, <<1, 0>>}
BadShapeDates ==
    {"invalid", "2024-1-1", "20240-1-15", "2024/01/15", "", "2024-01-155", "24-01-15",
     "2024-01-15 "}
SampleSeconds == {0, 1, 45}
BadTimes == {"24:00", "25:00", "08:60", "xx:00", "invalid", "0830"}


\* Texts that leave the date-time form of ECMAScript before the T of the
\* text timeClient builds: a rollover host reads them on with its older
\* reader, which passes over a parenthesis, takes GMT and Z for zones and
\* takes a word that swallows the T for no more than a word.
OddDates == {"2024-(1-15"}
OddDateTimes ==
    {<<"2024(01-15", "08">>, <<"2024-01-15 10:00:00 GM", " ">>, <<"2024-01(-15", "8:30:45">>,
     <<"", ":12">>}

DateText(y, m, d) == Pad(y, 4) \o "-" \o Pad(m, 2) \o "-" \o Pad(d, 2)
HHMMSS(h, m, sec) == HHMM(h, m) \o ":" \o Pad(sec, 2)

\* The date of the calendar and the time of the clock as numbers to compare.
DateNumber(y, m, d) == y * 10000 + m * 100 + d
TimeNumber(h, m, sec) == h * 10000 + m * 100 + sec

\* The proleptic Gregorian calendar has the day d of the month m of the year y.
Exists(y, m, d) == m \in 1..12 /\ d >= 1 /\ d <= DaysIn(m, y)

DateInputs ==
    {Input("ParseDate", IF Exists(y, md[1], md[2]) THEN "valid" ELSE "no such date",
           DateText(y, md[1], md[2]), "", DateNumber(y, md[1], md[2]), 0) :
        y \in SampleYears, md \in SampleMonthDays \cup NoSuchMonthDays}
    \cup {Input("ParseDate", "bad shape", s, "", 0, 0) : s \in BadShapeDates}
    \cup {Input("ParseDate", "odd text", s, "", 0, 0) : s \in OddDates}

\* The dates given to ParseDateTime, as year, month and day.
PairDates ==
    {<<2024, 1, 15>>, <<1969, 12, 31>>, <<1600, 1, 1>>, <<2200, 1, 1>>, <<1677, 9, 21>>,
     <<2262, 4, 11>>, <<2024, 2, 30>>, <<2023, 2, 29>>, <<2024, 13, 1>>}

DateTimeInputs ==
    {Input("ParseDateTime", IF Exists(ymd[1], ymd[2], ymd[3]) THEN "valid" ELSE "bad date",
           DateText(ymd[1], ymd[2], ymd[3]), HHMM(h, m),
           DateNumber(ymd[1], ymd[2], ymd[3]), TimeNumber(h, m, 0)) :
        ymd \in PairDates, h \in SampleHours, m \in SampleMinutes}
    \cup {Input("ParseDateTime", IF Exists(ymd[1], ymd[2], ymd[3]) THEN "valid" ELSE "bad date",
                DateText(ymd[1], ymd[2], ymd[3]), HHMMSS(h, 30, sec),
                DateNumber(ymd[1], ymd[2], ymd[3]), TimeNumber(h, 30, sec)) :
             ymd \in PairDates, h \in SampleHours, sec \in SampleSeconds}
    \cup {Input("ParseDateTime", "bad time", DateText(ymd[1], ymd[2], ymd[3]), t,
                DateNumber(ymd[1], ymd[2], ymd[3]), 0) :
             ymd \in PairDates, t \in BadTimes}
    \cup {Input("ParseDateTime", "bad date", d, "08:30", 0, 0) : d \in BadShapeDates}
    \cup {Input("ParseDateTime", "odd text", x[1], x[2], 0, 0) : x \in OddDateTimes}

\* The caller parses the date it was given.
CallsParseDate ==
    /\ input.fn = "ParseDate"
    /\ lastCall = NoCall
    /\ DoParseDate(input.a)

\* The caller parses the date and the time it was given.
CallsParseDateTime ==
    /\ input.fn = "ParseDateTime"
    /\ lastCall = NoCall
    /\ DoParseDateTime(input.a, input.b)

\* The caller renders the instant ParseDate returned.
CallsFormatDateOfParsed ==
    /\ lastCall.op = "ParseDate" /\ lastCall.err = ""
    /\ DoFormatDate(I64At(lastCall.val))

\* The caller renders the instant ParseDateTime returned.
CallsFormatDateTimeOfParsed ==
    /\ lastCall.op = "ParseDateTime" /\ lastCall.err = ""
    /\ DoFormatDateTime(I64At(lastCall.val))

DatesNext ==
    \/ \E hours \in Hours : SetTimeZoneOffset(hours)
    \/ CallsParseDate
    \/ CallsParseDateTime
    \/ CallsFormatDateOfParsed
    \/ CallsFormatDateTimeOfParsed

SpecDates == InitWith(DateInputs \cup DateTimeInputs) /\ [][DatesNext]_vars

\* C14: ParseDate on a text of the shape YYYY-MM-DD that names no date of
\* the calendar returns an error in both backends, whatever the host does
\* with such a text, and the error is none of those a text of the wrong
\* shape gets.
C14_NoSuchDateRejected ==
    /\ (OnInput("ParseDate") /\ input.kind = "no such date")
          => /\ lastCall.err # ""
             /\ lastCall.err \notin {ParseDate(provider, jsEngine, hostZone, s).err : s \in BadShapeDates}
    /\ (OnInput("ParseDate") /\ input.kind = "bad shape") => lastCall.err # ""
    /\ (OnInput("ParseDate") /\ input.a = "2024-02-30") => lastCall.err # ""

C14_Witness ==
    /\ OnInput("ParseDate") /\ input.a = "2024-02-30"
    /\ provider = "timeClient" /\ jsEngine = "rollover"
    /\ lastCall.err = "invalid date (auto-corrected)"

\* The first and the last date whose midnight UTC an int64 of nanoseconds
\* holds, as DateNumber.
FirstInt64Date == 16770922
LastInt64Date == 22620411

\* Midnight UTC of the date of a DateNumber.
MidnightOf(n) == Instant(DaysFromCivil(n \div 10000, (n \div 100) % 100, n % 100), 0, 0)

\* The call is FormatDate, made at register 0, of the instant the ParseDate
\* before it returned for the argument of the run.
FormatsParsedDate ==
    /\ lastCall.op = "ParseDate" /\ lastCall.err = ""
    /\ lastCall'.op = "FormatDate" /\ lastCall'.arg = I64At(lastCall.val)
    /\ lastCall'.set /\ lastCall'.h = 0

\* C15 as stated: for every text that names a date of the calendar,
\* ParseDate returns midnight UTC of that date, and FormatDate of it at
\* register 0 is the text.
C15_EveryDateRoundTrips ==
    /\ []((OnInput("ParseDate") /\ input.kind = "valid")
             => (lastCall.err = "" /\ lastCall.val = MidnightOf(input.n)))
    /\ [][(FormatsParsedDate /\ input.kind = "valid") => lastCall'.out = input.a]_vars

\* C15, amended: the same for every date from 1677-09-22 to 2262-04-11, the
\* dates whose midnight UTC an int64 of nanoseconds holds (dates before 1970
\* among them).
C15_DateRoundTripsInInt64Range ==
    /\ []((/\ OnInput("ParseDate") /\ input.kind = "valid"
           /\ input.n >= FirstInt64Date /\ input.n <= LastInt64Date)
             => (lastCall.err = "" /\ lastCall.val = MidnightOf(input.n)))
    /\ [][(/\ FormatsParsedDate /\ input.kind = "valid"
           /\ input.n >= FirstInt64Date /\ input.n <= LastInt64Date)
             => lastCall'.out = input.a]_vars
    /\ []((OnInput("ParseDate") /\ input.a = "1969-12-31") => lastCall.val = Instant(-1, 0, 0))
    /\ []((OnInput("ParseDate") /\ input.a = "2024-02-29") => lastCall.val = AtSeconds(1709164800))

C15_Witness ==
    /\ lastCall.op = "FormatDate" /\ input.fn = "ParseDate"
    /\ input.a = "1969-12-31"
    /\ lastCall.arg = I64At(Instant(-1, 0, 0))
    /\ lastCall.set /\ lastCall.h = 0
    /\ lastCall.out = "1969-12-31"

\* The text FormatDateTime is to give for the arguments of the run: the
\* date, a space, and the time with :00 for the seconds it does not have.
CanonicalDateTime ==
    input.a \o " " \o (IF Len(input.b) = 5 THEN input.b \o ":00" ELSE input.b)

\* The call is FormatDateTime, made at register 0, of the instant the
\* ParseDateTime before it returned for the arguments of the run.
FormatsParsedDateTime ==
    /\ lastCall.op = "ParseDateTime" /\ lastCall.err = ""
    /\ lastCall'.op = "FormatDateTime" /\ lastCall'.arg = I64At(lastCall.val)
    /\ lastCall'.set /\ lastCall'.h = 0

\* C16: for a date of the calendar and a time HH:MM or HH:MM:SS,
\* ParseDateTime succeeds, FormatDateTime of its instant at register 0 is
\* the date, a space and the time (with :00 after HH:MM), and HH:MM gives
\* the instant HH:MM:00 gives.
C16_DateTimeRoundTrips ==
    /\ []((OnInput("ParseDateTime") /\ input.kind = "valid") => lastCall.err = "")
    /\ [][(FormatsParsedDateTime /\ input.kind = "valid")
             => lastCall'.out = CanonicalDateTime]_vars
    /\ []((OnInput("ParseDateTime") /\ input.kind = "valid" /\ Len(input.b) = 5)
             => lastCall.val = ParseDateTime(provider, jsEngine, hostZone, input.a, input.b \o ":00").val)

\* C17: ParseDateTime returns an error whenever ParseDate of its date or
\* ParseTime of its time returns one, in both backends.
C17_ComponentErrorsPropagate ==
    (/\ OnInput("ParseDateTime")
     /\ \/ ParseDate(provider, jsEngine, hostZone, input.a).err # ""
        \/ ParseTime(provider, input.b).err # "")
       => lastCall.err # ""

(***************************************************************************)
(* The Format operations on texts and on values of types they have no case *)
(* for.                                                                    *)
(***************************************************************************)
ShapeTexts ==
    {"2024-01-15", "2024-13-15", "2024-02-30", "abcd-ef-gh", "2024/01/15", "2024-1-15",
     "invalid-date", "",
     "2024-01-15 08:30:00", "2024-01-15 25:00:00", "2024-01-15T08:30:00",
     "2024/01/15-08-30-00", "2024-01-15 8:30:45", "2024-01-15 08:30:45.5",
     "2024-01-15 08:30", "2024-01-15 08:61", "2024-01-15  8:30", "2024/01/15-08-30",
     "invalid-datetime", "14:45",
     "𰂀-01-15", "é024-01-15"}
UnsupportedTypes == {"int32", "float64", "bool", "nil"}

ShapeInputs ==
    {Input("Format", "string", s, "", 0, 0) : s \in ShapeTexts}
    \cup {Input("Format", "int", "", "", n, 0) : n \in {0, 123}}
    \cup {Input("Format", "int16", "", "", 510, 0)}
    \cup {Input("Format", t, "", "", 0, 0) : t \in UnsupportedTypes}

\* The value any the caller passes.
ValueOf(in) ==
    CASE in.kind = "string" -> Str(in.a)
      [] in.kind = "int" -> PlainInt(in.n)
      [] in.kind = "int16" -> I16(in.n)
      [] OTHER -> Unsupported(in.kind)

CallsFormatDate == input.fn = "Format" /\ DoFormatDate(ValueOf(input))
CallsFormatTime == input.fn = "Format" /\ DoFormatTime(ValueOf(input))
CallsFormatDateTime == input.fn = "Format" /\ DoFormatDateTime(ValueOf(input))
CallsFormatDateTimeShort == input.fn = "Format" /\ DoFormatDateTimeShort(ValueOf(input))

ShapeNext ==
    \/ \E hours \in Hours : SetTimeZoneOffset(hours)
    \/ CallsFormatDate
    \/ CallsFormatTime
    \/ CallsFormatDateTime
    \/ CallsFormatDateTimeShort

SpecShape == InitWith(ShapeInputs) /\ [][ShapeNext]_vars

\* The types each Format operation has a case for.
SupportedTypes(op) ==
    IF op = "FormatTime" THEN {"int64", "int16", "string"} ELSE {"int64", "string"}

\* C18: a Format operation given a value of a type it has no case for
\* returns the empty text, and FormatDate, FormatDateTime and
\* FormatDateTimeShort given a text return that text or the empty text.
C18_FormatFailuresSilent ==
    /\ (lastCall.op \in FormatOps /\ lastCall.arg.type \notin SupportedTypes(lastCall.op))
          => lastCall.out = ""
    /\ (/\ lastCall.op \in {"FormatDate", "FormatDateTime", "FormatDateTimeShort"}
        /\ lastCall.arg.type = "string")
          => lastCall.out \in {lastCall.arg.s, ""}

C18_Witness ==
    /\ lastCall.op = "FormatDateTimeShort"
    /\ lastCall.arg = Str("2024-01-15 08:30:00")
    /\ lastCall.out = ""

\* The positional checks of the three operations: the length, '-' at 4 and
\* 7, and the separators at 10, 13 and 16.
HasShape(op, s) ==
    CASE op = "FormatDate" ->
            Len(s) = 10 /\ At(s, 4) = "-" /\ At(s, 7) = "-"
      [] op = "FormatDateTime" ->
            /\ Len(s) = 19 /\ At(s, 4) = "-" /\ At(s, 7) = "-"
            /\ At(s, 10) = " " /\ At(s, 13) = ":" /\ At(s, 16) = ":"
      [] op = "FormatDateTimeShort" ->
            /\ Len(s) = 16 /\ At(s, 4) = "-" /\ At(s, 7) = "-"
            /\ At(s, 10) = " " /\ At(s, 13) = ":"

\* C19: FormatDate, FormatDateTime and FormatDateTimeShort return a text
\* unchanged exactly when it passes the positional check and "" otherwise,
\* and the two backends return the same for every text.
C19_PassthroughIsPositional ==
    (/\ lastCall.op \in {"FormatDate", "FormatDateTime", "FormatDateTimeShort"}
     /\ lastCall.arg.type = "string")
       => /\ lastCall.out = IF HasShape(lastCall.op, lastCall.arg.s) THEN lastCall.arg.s ELSE ""
          /\ FormatBy(lastCall.op, "timeServer", lastCall.arg, lastCall.reg)
                = FormatBy(lastCall.op, "timeClient", lastCall.arg, lastCall.reg)

(***************************************************************************)
(* DaysBetween on a pair of instants, and on the pair reversed.            *)
(***************************************************************************)

\* Mutant of WholeDays: the quotient is rounded down.
WholeDays_Floors(x) == x.day

\* An int64 of nanoseconds over the nanoseconds of a day, cut toward zero.
WholeDays(x) == IF x.day >= 0 \/ (x.sec = 0 /\ x.ns = 0) THEN x.day ELSE x.day + 1

\* Mutant of DaysBetweenShared: the day of nano2 is counted too.
DaysBetweenShared_CountsBothEnds(nano1, nano2) ==
    WholeDays(Int64(Norm(nano2.day - nano1.day, nano2.sec - nano1.sec, nano2.ns - nano1.ns))) + 1

\* DaysBetweenShared: int((nano2 - nano1) / nanosInDay).
DaysBetweenShared(nano1, nano2) ==
    WholeDays(Int64(Norm(nano2.day - nano1.day, nano2.sec - nano1.sec, nano2.ns - nano1.ns)))

DaysBetween(nano1, nano2) == DaysBetweenShared(nano1, nano2)

SampleDays == {-106752, -106751, -1, 0, 7, 19737, 19744, 106751}
SampleDayParts == {<<0, 0>>, <<763, 145224192>>, <<43200, 0>>, <<85636, 854775807>>}

\* The instants an int64 holds.
InInt64(at) == ~Before(at, MinInt64) /\ Before(at, TwoTo63)

DayInstants ==
    {at \in {Instant(d, part[1], part[2]) : d \in SampleDays, part \in SampleDayParts} :
        InInt64(at)}

\* Exact when the two instants are a whole number of days apart.
DayInputs ==
    {Input("DaysBetween",
           IF a.sec = b.sec /\ a.ns = b.ns THEN "exact" ELSE "inexact", a, b, 0, 0) :
        a \in DayInstants, b \in DayInstants}

DoDaysBetween(nano1, nano2) ==
    Returns(Call("DaysBetween", PlainInt(0), nano1, nano2, "", DaysBetween(nano1, nano2), ""))

\* The caller counts the days from the first instant to the second.
CallsDaysBetween ==
    /\ input.fn = "DaysBetween"
    /\ lastCall.op = "none"
    /\ DoDaysBetween(input.a, input.b)

\* The caller then counts them from the second to the first.
CallsDaysBetweenReversed ==
    /\ input.fn = "DaysBetween"
    /\ lastCall.op = "DaysBetween" /\ lastCall.a = input.a /\ lastCall.b = input.b
    /\ DoDaysBetween(input.b, input.a)

DaysNext ==
    \/ CallsDaysBetween
    \/ CallsDaysBetweenReversed
    \/ SetTimeZoneOffset(0)

SpecDays == InitWith(DayInputs) /\ [][DaysNext]_vars

\* C20: for instants a whole number of days apart DaysBetween of the pair
\* reversed is minus DaysBetween of the pair, and DaysBetween of an instant
\* and itself is 0; from 2024-01-15 to 2024-01-22 it is 7.
C20_DaysBetweenAntisymmetric ==
    /\ [][(/\ lastCall.op = "DaysBetween" /\ lastCall'.op = "DaysBetween"
           /\ lastCall'.a = lastCall.b /\ lastCall'.b = lastCall.a
           /\ input.kind = "exact")
             => lastCall'.val = -lastCall.val]_vars
    /\ []((lastCall.op = "DaysBetween" /\ lastCall.a = lastCall.b) => lastCall.val = 0)
    /\ []((/\ lastCall.op = "DaysBetween"
           /\ lastCall.a = AtSeconds(1705276800) /\ lastCall.b = AtSeconds(1705881600))
             => lastCall.val = 7)

C20_Witness ==
    /\ lastCall.op = "DaysBetween" /\ input.kind = "exact"
    /\ input.a = Instant(19737, 43200, 0) /\ input.b = Instant(-1, 43200, 0)
    /\ lastCall.a = input.b /\ lastCall.b = input.a
    /\ lastCall.val = 19738

(***************************************************************************)
(* The clock run: IsPast and IsFuture of one instant, while the wall clock *)
(* advances and the register is set.                                       *)
(***************************************************************************)

\* The readings the wall clock takes, in order: 22:10 and 23:10 on
\* 2024-01-15, half a microsecond before midnight, 100 ns past it.
ClockReadings ==
    {ClockStart, Instant(19737, 83400, 0), Instant(19737, 86399, 999999500),
     Instant(19738, 0, 100)}

\* The instants asked about: a reading, one nanosecond, one second and
\* 24 hours to either side of it.
Around(r) ==
    {r, Norm(r.day, r.sec, r.ns - 1), Norm(r.day, r.sec, r.ns + 1),
     Norm(r.day, r.sec - 1, r.ns), Norm(r.day, r.sec + 1, r.ns),
     Instant(r.day - 1, r.sec, r.ns), Instant(r.day + 1, r.sec, r.ns)}

\* The instants given to IsPast, IsFuture and IsToday: those around the
\* reading before midnight, the start-up reading, and 23:10 a year earlier.
ClockInstants ==
    Around(Instant(19737, 86399, 999999500)) \cup {ClockStart, Instant(19372, 83400, 0)}

ClockInputs == {Input("IsPast", "instant", x, "", 0, 0) : x \in ClockInstants}

\* UnixNano(): time.Now().UTC().UnixNano() natively; on the host
\* int64(Date.getTime()) * 1000000, a whole number of milliseconds.
UnixNano(p, reading) ==
    IF p = "timeServer" THEN reading
    ELSE Instant(reading.day, reading.sec, (reading.ns \div 1000000) * 1000000)

\* Mutant of IsPast: the instant now is past as well.
IsPast_OrEqual(nano, now) == ~Before(now, nano)

\* IsPast: nano < UnixNano().
IsPast(nano, now) == Before(nano, now)

\* Mutant of IsFuture: the comparison is turned around.
IsFuture_TurnedAround(nano, now) == Before(nano, now)

\* IsFuture: nano > UnixNano().
IsFuture(nano, now) == Before(now, nano)

\* The clock advances to a later reading.
Tick ==
    /\ \E r \in ClockReadings : Before(clock, r) /\ clock' = r
    /\ UNCHANGED <<provider, jsEngine, input, hostZone, seen, today, saved, tzVars,
                   setVars, timerVars, pairVars, raceVars>>

\* A call of IsPast or IsFuture returns; what the calls have shown so far
\* is kept in seen.
ReturnsSeen(call) ==
    /\ lastCall' = call
    /\ seen' = [past      |-> seen.past \/ (call.op = "IsPast" /\ call.val),
                notFuture |-> seen.notFuture \/ (call.op = "IsFuture" /\ ~call.val)]
    /\ UNCHANGED <<provider, jsEngine, input, hostZone, clock, today, saved,
                   tzOffsetMinutes, lastSet, setVars, timerVars, pairVars, raceVars>>

CallsIsPast ==
    LET now == UnixNano(provider, clock)
    IN ReturnsSeen(Call("IsPast", I64At(input.a), input.a, now, "", IsPast(input.a, now), ""))

CallsIsFuture ==
    LET now == UnixNano(provider, clock)
    IN ReturnsSeen(Call("IsFuture", I64At(input.a), input.a, now, "", IsFuture(input.a, now), ""))

WeekdayNames == <<"Thu", "Fri", "Sat", "Sun", "Mon", "Tue", "Wed">>

MonthNames ==
    <<"Jan", "Feb", "Mar", "Apr", "May", "Jun", "Jul", "Aug", "Sep", "Oct", "Nov", "Dec">>

\* Date.prototype.toDateString: the date of the Date d in the host's own
\* time zone, as "Mon Jan 15 2024".
toDateString(d, zone) ==
    LET local == Norm(d.day, d.sec + ZoneOffsetAt(zone, d), d.ns)
        c     == CivilFromDays(local.day)
    IN WeekdayNames[(local.day % 7) + 1] \o " " \o MonthNames[c.month] \o " "
       \o Pad(c.day, 2) \o " " \o (IF c.year < 0 THEN "-" ELSE "")
       \o ZeroPad(Itoa(IF c.year < 0 THEN -c.year ELSE c.year), 4)

\* Time.Year and Time.YearDay of a day counted from 1970-01-01.
Year(day) == CivilFromDays(day).year
YearDay(day) == day - DaysFromCivil(Year(day), 1, 1) + 1

\* The last line of timeServer.IsToday: year and day of the year compared.
SameYearDay(tLocal, nowLocal) ==
    Year(tLocal.day) = Year(nowLocal.day) /\ YearDay(tLocal.day) = YearDay(nowLocal.day)

\* timeServer.IsToday: each instant moved by the offset its applyOffset
\* loaded, then year and day of the year compared.
ServerIsToday(nano, now, tOffset, nowOffset) ==
    SameYearDay(ServerLocal(nano, tOffset), ServerLocal(now, nowOffset))

\* timeClient.IsToday: each instant moved by the offset its applyOffset
\* loaded, then their toDateString texts compared.
ClientIsToday(nano, now, tOffset, nowOffset, zone) ==
    toDateString(ClientApplyOffset(nano, tOffset), zone)
        = toDateString(ClientApplyOffset(now, nowOffset), zone)

ClockNext ==
    \/ Tick
    \/ CallsIsPast
    \/ CallsIsFuture
    \/ \E hours \in Hours : SetTimeZoneOffset(hours)

SpecClock == InitWith(ClockInputs) /\ [][ClockNext]_vars

\* C21: against one sampled value of now, IsPast(x) is x < now and
\* IsFuture(x) is x > now; the two are never both true of the same x and
\* now, and both false only when x = now.
C21_PastAndFutureExclusive ==
    [][/\ lastCall'.op = "IsPast" => (lastCall'.val <=> Before(lastCall'.a, lastCall'.b))
       /\ lastCall'.op = "IsFuture" => (lastCall'.val <=> Before(lastCall'.b, lastCall'.a))
       /\ ( /\ lastCall.op = "IsPast" /\ lastCall'.op = "IsFuture"
            /\ lastCall'.a = lastCall.a /\ lastCall'.b = lastCall.b )
          => /\ ~(lastCall.val /\ lastCall'.val)
             /\ (~lastCall.val /\ ~lastCall'.val) => lastCall.a = lastCall.b]_vars

\* IsPast and IsFuture have both returned false for the instant now.
C21_Witness ==
    /\ lastCall.op = "IsFuture" /\ ~lastCall.val /\ lastCall.a = lastCall.b
    /\ seen = [past |-> FALSE, notFuture |-> TRUE]
    /\ clock # ClockStart

(***************************************************************************)
(* Further properties of the timer contract.                               *)
(***************************************************************************)

\* C23: AfterFunc with a nil callback returns a usable timer; firing it is a
\* no-op that does not fail and still moves the timer out of Active, so a
\* Stop() after the fire returns false and a Stop() before it returns true.
C23_NilCallbackFiresAsNoOp ==
    [][\A t \in TimerIds :
          /\ (IsNextFree(t) /\ timers'[t] # NoTimer) => CodeActive(t)'
          /\ (timers'[t] # NoTimer /\ timers'[t].f = "nil") =>
                /\ calls'[t] = 0
                /\ ~Crashed(t)'
                /\ fired'[t] > 0 => ~CodeActive(t)'
                /\ Len(stopLog'[t]) = Len(stopLog[t]) + 1 =>
                      (stopLog'[t][Len(stopLog'[t])] <=> (fired[t] = 0 /\ stopLog[t] = <<>>))]_vars

(***************************************************************************)
(* Further properties of DaysBetween.                                      *)
(***************************************************************************)

\* The time from instant a to instant b.
Difference(a, b) == Norm(b.day - a.day, b.sec - a.sec, b.ns - a.ns)

\* q is the quotient of d by the length of a day, cut toward zero: what is
\* left of d after q days is shorter than a day and on the side of d.
IsTruncatedQuotient(q, d) ==
    LET rest == Norm(d.day - q, d.sec, d.ns)
    IN IF d.day >= 0 THEN rest.day = 0
       ELSE rest = Instant(0, 0, 0) \/ (rest.day = -1 /\ rest # Instant(-1, 0, 0))

\* C24: for instants whose difference fits 64 bits DaysBetween(a, b) is the
\* quotient of b - a by the nanoseconds of a day, cut toward zero (minus one
\* and a half days give -1), whatever the register holds.
C24_DaysBetweenTruncates ==
    (lastCall.op = "DaysBetween" /\ InInt64(Difference(lastCall.a, lastCall.b)))
        => IsTruncatedQuotient(lastCall.val, Difference(lastCall.a, lastCall.b))

\* DaysBetween has returned -1 for two instants one and a half days apart,
\* after the register was set.
C24_Witness ==
    /\ lastCall.op = "DaysBetween" /\ lastCall.set /\ lastCall.reg = 0
    /\ lastCall.a = Instant(0, 43200, 0) /\ lastCall.b = Instant(-1, 0, 0)
    /\ lastCall.val = -1

(***************************************************************************)
(* IsToday step by step, beside SetTimeZoneOffset calls of other           *)
(* goroutines.  Each applyOffset loads the register for itself.  The       *)
(* bridged backend runs on one cooperative loop: there nothing comes       *)
(* between the steps of a call.                                            *)
(***************************************************************************)

TodayStep(next) ==
    /\ today' = next
    /\ UNCHANGED <<provider, jsEngine, input, hostZone, clock, seen, saved, tzVars,
                   setVars, timerVars, pairVars, raceVars>>

\* IsToday(nano) begins: the current instant is sampled.
TodayBegins ==
    /\ today.pc \in {"idle", "done"}
    /\ TodayStep([IdleToday EXCEPT !.pc = "shiftGiven", !.nano = input.a,
                                   !.now = UnixNano(provider, clock)])

\* applyOffset of the given instant loads the register.
TodayShiftsGiven ==
    /\ today.pc = "shiftGiven"
    /\ TodayStep([today EXCEPT !.pc = "shiftNow", !.tOffset = getOffsetMinutes])

\* applyOffset of the current instant loads the register.
TodayShiftsNow ==
    /\ today.pc = "shiftNow"
    /\ TodayStep([today EXCEPT !.pc = "compare", !.nowOffset = getOffsetMinutes])

\* The result of the IsToday call in progress.
IsToday ==
    IF provider = "timeServer"
    THEN ServerIsToday(today.nano, today.now, today.tOffset, today.nowOffset)
    ELSE ClientIsToday(today.nano, today.now, today.tOffset, today.nowOffset, hostZone)

\* The two dates are compared and IsToday returns: the result is kept with
\* the two instants, the offsets are locals of the call that ended.
TodayReturns ==
    /\ today.pc = "compare"
    /\ TodayStep([IdleToday EXCEPT !.pc = "done", !.nano = today.nano, !.now = today.now,
                                   !.val = IsToday])

\* Another call may run now: natively goroutines run side by side, on the
\* cooperative loop only when no IsToday call is in progress.
MayRunBeside == provider = "timeServer" \/ today.pc \in {"idle", "done"}

\* SetTimeZoneOffset(hours) of another goroutine.
TodaySetRuns(hours) ==
    /\ MayRunBeside
    /\ SetTimeZoneOffset(hours)

TodayNext ==
    \/ Tick
    \/ TodayBegins
    \/ TodayShiftsGiven
    \/ TodayShiftsNow
    \/ TodayReturns
    \/ \E hours \in Hours : TodaySetRuns(hours)

SpecToday == InitWith(ClockInputs) /\ [][TodayNext]_vars

\* The calendar date, read as UTC, of an instant moved by offset minutes.
ShiftedDate(at, offset) == CivilFromDays(Norm(at.day, at.sec + offset * 60, at.ns).day)

\* A step in which an IsToday call returns.
IsTodayReturn == today.pc = "compare" /\ today'.pc = "done"

\* C22: IsToday(x) is true exactly when x and the current instant, each
\* moved by the register and read as UTC, fall on the same calendar date, on
\* both backends; so IsToday(now) is true and IsToday(now -+ 24 h) is false
\* whatever the register holds.  Stated of the calls that loaded one and the
\* same register value for both instants.
C22_IsTodayComparesShiftedDates ==
    [][(IsTodayReturn /\ today.tOffset = today.nowOffset)
       => /\ today'.val <=> (ShiftedDate(today.nano, today.tOffset)
                              = ShiftedDate(today.now, today.tOffset))
          /\ today.nano = today.now => today'.val
          /\ today.nano \in {Instant(today.now.day - 1, today.now.sec, today.now.ns),
                             Instant(today.now.day + 1, today.now.sec, today.now.ns)}
             => ~today'.val]_vars

\* C25: one IsToday call moves the given and the current instant by one
\* and the same register value, also while SetTimeZoneOffset runs beside it;
\* so IsToday of the current instant is true in every interleaving.
C25_IsTodayUsesOneOffset ==
    [][IsTodayReturn
       => /\ today.tOffset = today.nowOffset
          /\ today.nano = today.now => today'.val]_vars

\* C26: in the host-event-loop realization the wrapper of a timer whose
\* host timeout is still pending has not been released, so the host never
\* invokes a released wrapper, also after a forced fire.
C26_PendingTimeoutHasLiveWrapper ==
    \A t \in TimerIds :
        (timers[t] # NoTimer /\ timers[t].kind = "WasmTimer") =>
            /\ t \in hostTimeouts => released[t] = 0
            /\ deadCalls[t] = 0

\* The frames of the stack in which the callback of a bridged timer runs.
CallbackFrames == {i \in 1..Len(stack) : stack[i].op = "Fire" /\ stack[i].pc = "callback"}

\* C27: in the host-event-loop realization the timer is inactive and its
\* wrapper released when the callback is invoked, so a Stop() the callback
\* calls on its own timer returns false, without a second release and
\* without a second run of the callback.
C27_StopInsideCallbackReturnsFalse ==
    /\ [](\A i \in CallbackFrames :
            /\ ~timers[stack[i].t].active
            /\ released[stack[i].t] = 1
            /\ calls[stack[i].t] = 1
            /\ \A j \in StopFrames(stack[i].t) : j > i => ~stack[j].ret)
    /\ [][\A i \in CallbackFrames :
            Len(stopLog'[stack[i].t]) = Len(stopLog[stack[i].t]) + 1
               => ~stopLog'[stack[i].t][Len(stopLog'[stack[i].t])]]_vars

\* The callback of a bridged timer is running and the Stop() it called on
\* its own timer has returned false.
C27_Witness ==
    \E t \in TimerIds :
        /\ timers[t] # NoTimer /\ timers[t].kind = "WasmTimer"
        /\ Len(stack) = 1 /\ TopIs("Fire", "callback") /\ Top.t = t
        /\ stopLog[t] = <<FALSE>>
        /\ released[t] = 1 /\ calls[t] = 1

(***************************************************************************)
(* The register beside the whole API: every operation is called, the       *)
(* offset is saved with GetTimeZoneOffset and restored with                *)
(* SetTimeZoneOffset as RunAPITests does.                                  *)
(***************************************************************************)

\* The instant the calls of this run are given: 2024-01-15T23:10:00Z.
FrameInputs == {Input("IsPast", "instant", Instant(19737, 83400, 0), "", 0, 0)}

\* initialOffset := GetTimeZoneOffset(), at the top of RunAPITests.
SavesOffset ==
    /\ ~saved.has /\ MayRunBeside
    /\ lastCall' = Call("GetTimeZoneOffset", PlainInt(0), "", "", "",
                        OffsetHours(getOffsetMinutes), "")
    /\ saved' = [has |-> TRUE, hours |-> OffsetHours(getOffsetMinutes),
                 reg |-> tzOffsetMinutes]
    /\ UNCHANGED <<provider, jsEngine, input, hostZone, clock, seen, today,
                   tzOffsetMinutes, lastSet, setVars, timerVars, pairVars, raceVars>>

\* defer SetTimeZoneOffset(initialOffset): it runs when the subtests have
\* returned, however many calls they made.
RestoresOffset ==
    /\ saved.has
    /\ TodaySetRuns(saved.hours)

\* The Format and Parse subtests come first: they have returned when the
\* IsToday subtest begins, and the timer tests run after RunAPITests.
RunsFirst == today.pc = "idle" /\ timers[1] = NoTimer

FrameNext ==
    \/ TodaySetRuns(0)
    \/ SavesOffset
    \/ RestoresOffset
    \/ MayRunBeside /\ GetTimeZoneOffset
    \/ RunsFirst /\ DoFormatDate(I64(1609459200))
    \/ RunsFirst /\ DoFormatTime(I64(1609459200))
    \/ RunsFirst /\ DoFormatDateTime(I64(1609459200))
    \/ RunsFirst /\ DoFormatDateTimeShort(I64(1609459200))
    \/ RunsFirst /\ DoParseDate("2024-01-15")
    \/ RunsFirst /\ DoParseTime("08:30")
    \/ RunsFirst /\ DoParseDateTime("2024-01-15", "08:30")
    \/ TodayBegins
    \/ TodayShiftsGiven
    \/ TodayShiftsNow
    \/ TodayReturns
    \/ MayRunBeside /\ CallsIsPast
    \/ MayRunBeside /\ CallsIsFuture
    \/ MayRunBeside /\ DoDaysBetween(input.a, ClockStart)
    \/ MayRunBeside /\ AfterFunc(1, "fn")
    \/ MayRunBeside /\ stopLog[1] = <<>> /\ Stop(1)
    \/ MayRunBeside /\ DelayElapses(1)
    \/ MayRunBeside /\ GoroutineRuns(1)

SpecFrame == InitWith(FrameInputs) /\ [][FrameNext]_vars

\* A step that calls SetTimeZoneOffset with the value saved from
\* GetTimeZoneOffset.
IsRestore ==
    /\ saved.has
    /\ lastSet'.set /\ lastSet'.hours = saved.hours
    /\ <<lastSet, tzOffsetMinutes>>' # <<lastSet, tzOffsetMinutes>>

\* C28 as stated: SetTimeZoneOffset of the value GetTimeZoneOffset returned
\* leaves in the register what it held at the GetTimeZoneOffset call,
\* whatever that was, a value of start-up detection included.
C28_SaveAndRestoreLossless ==
    [][IsRestore => tzOffsetMinutes' = saved.reg]_vars

\* C28, amended: SetTimeZoneOffset of the value GetTimeZoneOffset returned
\* leaves in the register what it held at the GetTimeZoneOffset call
\* whenever that was a whole number of hours (as is every value stored by
\* SetTimeZoneOffset).
C28_SaveAndRestoreLosslessOnWholeHours ==
    [][(IsRestore /\ saved.reg % 60 = 0) => tzOffsetMinutes' = saved.reg]_vars

\* The offset detected at start-up was saved and replaced by 0, FormatDate
\* was called at offset 0, and the saved offset was restored.
C28_Witness ==
    /\ saved = [has |-> TRUE, hours |-> 1, reg |-> 60]
    /\ lastCall.op = "FormatDate" /\ lastCall.set /\ lastCall.reg = 0
    /\ lastSet = [set |-> TRUE, hours |-> 1, over |-> TRUE]
    /\ tzOffsetMinutes = 60 /\ hostZone = "Etc/GMT-1"

\* C29: after start-up detection only SetTimeZoneOffset changes the
\* register: a step that returns the result of a Format, Parse, IsToday,
\* IsPast, IsFuture, DaysBetween or GetTimeZoneOffset call, or that creates,
\* stops or fires a timer, leaves it as it was; the register holds the
\* detected value until the first SetTimeZoneOffset and from then on the
\* value of the last one, never the detected value again.
C29_OnlySetChangesRegister ==
    /\ [][/\ tzOffsetMinutes' # tzOffsetMinutes
             => /\ lastSet'.set /\ tzOffsetMinutes' = lastSet'.hours * 60
                /\ lastCall'.op = lastCall.op /\ lastCall'.reg = lastCall.reg
                /\ lastCall'.again = lastCall.again
                /\ UNCHANGED <<timerVars, today>>
          /\ (\/ lastCall'.op # lastCall.op \/ lastCall'.reg # lastCall.reg
              \/ lastCall'.again # lastCall.again)
             => tzOffsetMinutes' = tzOffsetMinutes
          /\ timerVars' # timerVars => tzOffsetMinutes' = tzOffsetMinutes
          /\ today' # today => tzOffsetMinutes' = tzOffsetMinutes]_vars
    /\ [](~lastSet.set =>
             tzOffsetMinutes = (IF hostZone = "America/St_Johns" THEN -210 ELSE 60))
    /\ [](lastSet.set => tzOffsetMinutes = lastSet.hours * 60)

\* IsToday has been called since the register was last set, a timer was
\* created and stopped, and the register holds the value set.
C29_Witness ==
    /\ lastSet.set /\ lastSet.hours = -3 /\ tzOffsetMinutes = -180
    /\ hostZone = "America/St_Johns"
    /\ today.pc = "done" /\ today.val /\ lastCall.op = "IsFuture" /\ lastCall.reg = -180
    /\ stopLog[1] = <<TRUE>>

(***************************************************************************)
(* Further properties of the clock run.                                    *)
(***************************************************************************)

\* C30: the clock never going backwards and the instant x being fixed, once
\* IsPast(x) has returned true every later IsPast(x) returns true and every
\* later IsFuture(x) false, and once IsFuture(x) has returned false it
\* never returns true again.
C30_PastAndFutureMonotone ==
    /\ (lastCall.op = "IsPast" /\ seen.past) => lastCall.val
    /\ (lastCall.op = "IsFuture" /\ (seen.past \/ seen.notFuture)) => ~lastCall.val

\* IsFuture(x) returned false when the clock stood at x, the clock has
\* advanced, IsPast(x) has returned true and IsFuture(x) false once more.
C30_Witness ==
    /\ seen = [past |-> TRUE, notFuture |-> TRUE]
    /\ lastCall.op = "IsFuture" /\ ~lastCall.val
    /\ Before(lastCall.a, lastCall.b)
    /\ lastCall.a \in ClockReadings
    /\ clock = Instant(19738, 0, 100)

====
